---- MODULE Spec2Model ----
(***************************************************************************)
(* Model of the conversation delivery pipeline of ChatAiMobile:            *)
(*   - the persisted message queue   (src/utils/messageQueue.ts)           *)
(*   - the versioned conversation store (src/utils/conversations.ts)       *)
(*   - the edit-and-regenerate handlers (src/app/index.tsx)                *)
(*                                                                         *)
(* The JavaScript runtime is single threaded: a task runs without          *)
(* interruption up to its next await.  Every action below is one such run. *)
(* An AsyncStorage read or write takes effect when it is issued; the task  *)
(* that awaits it resumes in a later action.                               *)
(***************************************************************************)
EXTENDS Integers, Sequences, FiniteSets, TLC

(***************************************************************************)
(* Bounds of the model and program constants.                              *)
(***************************************************************************)
\* number of addMessage calls explored (item ids are 1..MaxItems)
MaxItems == 2

\* const MAX_RETRIES = 3
MAX_RETRIES == 3

ItemIds == 1..MaxItems

\* conversation ids a queued message may name; "c1" has a stored record in
\* the initial state, "c2" has none
ConvIds == {"c1", "c2"}

\* message.error / version.provider left undefined
Undefined == ""

VARIABLES
    \* ---- MessageQueueManager -------------------------------------------
    queue,          \* this.queue: the ids of the queued objects, in order
    obj,            \* the QueuedMessage objects, by id (also detached ones)
    nextId,         \* next id randomUUID() hands to addMessage
    storedQueue,    \* AsyncStorage['message_queue'], as last written
    params,         \* ids i for which AsyncStorage['queue_params_i'] exists
    \* ---- the drain loop (startProcessing) ---------------------------------
    pc,             \* where the loop is suspended
    pendingMessages,\* the pass's snapshot of pending items
    idx,            \* position of the for loop in pendingMessages
    hasParams,      \* result of the getItem of the item's params record
    drainConv,      \* result of loadConversation: <<>> (null) or <<record>>
    \* ---- a caller of the queue's public methods ---------------------------
    task,           \* the one in-flight call: its method, position, argument
    \* ---- conversation store -------------------------------------------------
    convs,          \* AsyncStorage['conversation_<id>']: id -> record
    \* ---- handleSaveEditedMessage (src/app/index.tsx) -----------------------
    regen,          \* the regeneration a saved edit is waiting for
    \* ---- history variables (not program state) ------------------------------
    attempts,       \* processSingleMessage calls per item since (re)set
    lastOp,         \* history, the last store call if it was one of:
                    \* "editv" a saved edit, "addv" a regeneration completed
                    \* with no other call since its edit, "switch" a switch
                    \* to the version already active; "none" otherwise
    edits,          \* per message: original text and the texts of its edits
    \* ---- ResponseCache (src/utils/responseCache.ts) -----------------------
    now,            \* Date.now(), in milliseconds
    cache,          \* AsyncStorage['ai_response_cache_<hash>']: key -> entry
    others,         \* number of further cache entries in AsyncStorage, all
                    \* written at time 0 with the default ttl
    \* ---- history variables of the cache ------------------------------------
    writer,         \* per key, the request whose setCached wrote the entry
    last,           \* the last call of the cache and its outcome: for
                    \* setCached the entry written, for getCached the
                    \* result, the writer of the entry found and whether the
                    \* call follows a setCached of the same request
    \* ---- token estimation and context trimming ----------------------------
    tok,            \* the arguments of a call of estimateTokens or
                    \* trimContextByTokens and, once it has run, its result
    \* ---- generateText / streamText ----------------------------------------
    call,           \* the call in progress: its arguments, its position, the
                    \* callbacks it has made, and how often it has looked
                    \* into the cache and invoked the backend
    \* ---- the conversation index, the chat screen, restarts -----------------
    idList,         \* AsyncStorage['conversation_ids'], parsed
    corrupt,        \* the AsyncStorage keys whose text is not valid JSON
    restarts,       \* how often the app was killed and started again
    chat,           \* the chat screen: the messages of the conversation it
                    \* shows (chatHistory) and whether a send is in progress
    saves,          \* the calls of saveConversation / createNewConversation
                    \* in progress: position, conversation id, the list read
    outcome         \* the last call made on a key of `corrupt`: the call and
                    \* whether it returned or threw

vars == <<queue, obj, nextId, storedQueue, params, pc, pendingMessages, idx,
          hasParams, drainConv, task, convs, regen, attempts, lastOp,
          edits, now, cache, others, writer, last, tok, call, idList,
          corrupt, restarts, chat, saves, outcome>>

\* the variables of the index, the chat screen and the restarts
dvars == <<idList, corrupt, restarts, chat, saves, outcome>>

\* no chat is open, no save is in progress
NoChat == [pc |-> "closed", conv |-> "c1", chatHistory |-> <<>>]

NoSaves == [k \in {} |-> k]

NoOutcome == [op |-> "none", result |-> "none"]

\* the index lists the one stored conversation, every record is well formed,
\* the app has not been restarted and shows no conversation
StoreUnused ==
    /\ idList = <<"c1">>
    /\ corrupt = {}
    /\ restarts = 0
    /\ chat = NoChat
    /\ saves = NoSaves
    /\ outcome = NoOutcome

\* the variables of the response cache
cvars == <<now, cache, others, writer, last>>

\* a map without keys
EmptyMap == [k \in {} |-> k]

\* no call of the cache has been made yet
NoCall ==
    [op |-> "none",
     request |-> [prompt |-> <<>>, provider |-> "", model |-> <<>>,
                  image |-> [uri |-> <<>>, base64 |-> <<>>, present |-> FALSE],
                  history |-> <<>>],
     hit |-> FALSE, text |-> <<>>, at |-> 0, ttl |-> 0,
     writer |-> <<>>, follows |-> FALSE]

\* no call of the token utilities has been made
NoTokens ==
    [op |-> "none", provider |-> "openai", texts |-> <<>>, prompt |-> <<>>,
     history |-> <<>>, image |-> FALSE, done |-> FALSE, estimates |-> <<>>,
     trimmed |-> <<>>]

\* no call of generateText or streamText has been made
NotCalled ==
    [mode |-> "idle", pc |-> "idle", request |-> NoCall.request,
     args |-> NoCall.request, outcome |-> "pending", text |-> <<>>,
     hit |-> FALSE, hitText |-> <<>>, lookups |-> 0, backendCalls |-> 0,
     words |-> <<>>, chunks |-> <<>>, completes |-> 0, errors |-> 0]

\* the cache, the token utilities and the adapter before their first use:
\* AsyncStorage holds no entry
CacheUnused ==
    /\ now = 1
    /\ cache = EmptyMap
    /\ others = 0
    /\ writer = EmptyMap
    /\ last = NoCall
    /\ tok = NoTokens
    /\ call = NotCalled

\* the variables of the message queue and of the edit handlers
qvars == <<queue, obj, nextId, storedQueue, params, pc, pendingMessages, idx,
           hasParams, drainConv, task, attempts>>

svars == <<regen, lastOp, edits>>

\* the variables of the queue, of the edit handlers and of the store
appvars == <<qvars, svars, convs, dvars>>

(***************************************************************************)
(* Helpers on sequences.                                                   *)
(***************************************************************************)
Range(s) == {s[i] : i \in 1..Len(s)}

RECURSIVE FilterSeq(_, _)
\* Array.prototype.filter restricted to membership tests
FilterSeq(s, keep) ==
    IF s = <<>> THEN <<>>
    ELSE IF Head(s) \in keep THEN <<Head(s)>> \o FilterSeq(Tail(s), keep)
         ELSE FilterSeq(Tail(s), keep)

(***************************************************************************)
(* Conversation records.  Of a record the model keeps the messages: the    *)
(* timestamps (createdAt, updatedAt), title, provider, model, folder and   *)
(* tags are read by no operation modelled here.                            *)
(***************************************************************************)
Msg(role, text, provider, id) ==
    [role |-> role, text |-> text, provider |-> provider, id |-> id,
     versions |-> <<>>]

\* loadConversation: null when no record is stored
loadConversation(c) == IF c \in DOMAIN convs THEN <<convs[c]>> ELSE <<>>

\* the messages of convo that the record does not hold are added to it
saveConversationMerged(c, convo) ==
    [k \in (DOMAIN convs) \cup {c} |->
        IF k # c THEN convs[k]
        ELSE IF c \notin DOMAIN convs THEN convo
        ELSE [convo EXCEPT !.messages =
                 convs[c].messages \o
                 SelectSeq(convo.messages,
                           LAMBDA m : \A j \in 1..Len(convs[c].messages) :
                                         convs[c].messages[j] # m)]]

\* saveConversation: the whole record is overwritten
saveConversation(c, convo) ==
    [k \in (DOMAIN convs) \cup {c} |-> IF k = c THEN convo ELSE convs[k]]

(***************************************************************************)
(* MessageQueueManager.                                                    *)
(***************************************************************************)
NewQueuedMessage(id, c) ==
    [id |-> id, conversationId |-> c, retryCount |-> 0,
     maxRetries |-> MAX_RETRIES, status |-> "pending", error |-> Undefined]

\* JSON.stringify(this.queue)
Snapshot(q, o) == [i \in 1..Len(q) |-> o[q[i]]]

RetriesExhaustedOffByOne(m) == m.retryCount > m.maxRetries

\* queuedMessage.retryCount >= queuedMessage.maxRetries
RetriesExhausted(m) == m.retryCount >= m.maxRetries

\* updateMessageStatus applied to the objects o: the object is looked up in
\* this.queue; when found its status (and error, if given) is set
SetStatus(o, id, status, error) ==
    IF id \in Range(queue)
    THEN [o EXCEPT ![id].status = status,
                   ![id].error = IF error # Undefined THEN error ELSE @]
    ELSE o

RemoveFromQueueInverted(q, id) == FilterSeq(q, {id})

\* this.queue.filter(msg => msg.id !== id)
RemoveFromQueue(q, id) == FilterSeq(q, Range(q) \ {id})

\* the index written before the status is set
SaveBeforeStatus(o, id, status, error) ==
    IF id \in Range(queue) THEN Snapshot(queue, o) ELSE storedQueue

\* saveQueue as called by updateMessageStatus: only when the id was found
SaveAfterStatus(o, id, status, error) ==
    IF id \in Range(queue)
    THEN Snapshot(queue, SetStatus(o, id, status, error))
    ELSE storedQueue

\* updateMessageStatus up to its await: mutate, then saveQueue
UpdateMessageStatus(o, id, status, error) ==
    /\ obj' = SetStatus(o, id, status, error)
    /\ storedQueue' = SaveAfterStatus(o, id, status, error)

\* the item the for loop is at
cur == pendingMessages[idx]

\* the objects the drain loop still holds: the rest of its snapshot
DrainRefs(pend, i) == {pend[k] : k \in {j \in 1..Len(pend) : j >= i}}

\* Garbage collection: an object referenced neither by this.queue, nor by
\* the drain loop's snapshot, nor by a running addMessage is unreachable;
\* its fields (and its attempt count) are reset
Collect(o, live) ==
    [i \in ItemIds |-> IF i \in live THEN o[i] ELSE NewQueuedMessage(i, "c1")]

CollectAttempts(a, live) == [i \in ItemIds |-> IF i \in live THEN a[i] ELSE 0]

\* the for loop moves on with the objects o: next item, or back to the top
\* of while (true); the item left behind is dropped unless still queued
Advance(o) ==
    /\ IF idx < Len(pendingMessages)
       THEN /\ idx' = idx + 1
            /\ pc' = "iter"
            /\ UNCHANGED pendingMessages
       ELSE /\ idx' = 0
            /\ pc' = "top"
            /\ pendingMessages' = <<>>
    /\ LET live == Range(queue) \cup DrainRefs(pendingMessages, idx + 1)
                   \cup (IF task.op = "add" THEN {task.id} ELSE {})
       IN  /\ obj' = Collect(o, live)
           /\ attempts' = CollectAttempts(attempts, live)

Init ==
    /\ queue = <<>>
    /\ obj = [i \in ItemIds |-> NewQueuedMessage(i, "c1")]
    /\ nextId = 1
    /\ storedQueue = <<>>
    /\ params = {}
    /\ pc = "top"
    /\ pendingMessages = <<>>
    /\ idx = 0
    /\ hasParams = FALSE
    /\ drainConv = <<>>
    /\ task = [op |-> "none", pc |-> "idle", id |-> 0, arr |-> <<>>]
    /\ convs = [c \in {"c1"} |-> [messages |-> <<>>]]
    /\ attempts = [i \in ItemIds |-> 0]
    /\ regen = [kind |-> "none", conv |-> "c1", user |-> 0, ai |-> 0,
                corr |-> 0, snap |-> <<>>, clean |-> TRUE]
    /\ lastOp = "none"
    /\ edits = [c \in {"c1"} |-> <<>>]
    /\ StoreUnused
    /\ CacheUnused

(***************************************************************************)
(* processSingleMessage and the catch block of startProcessing.            *)
(***************************************************************************)
\* the user message the item carries and the reply built from the response;
\* randomUUID() is modelled by distinct numbers
QueuedUserMessage(id) == Msg("user", "Hello", Undefined, 2 * id)

AiMessage(id) == Msg("model", "response", "gemini", 2 * id + 1)

\* conversation.messages.push(queuedMessage.message, aiMessage)
PushPair(convo, id) ==
    [convo EXCEPT !.messages = @ \o <<QueuedUserMessage(id), AiMessage(id)>>]

CatchStatusAlwaysPending(m) == "pending"

\* the status the catch block gives the item after retryCount++
CatchStatus(m) == IF RetriesExhausted(m) THEN "failed" ELSE "pending"

\* catch (error): retryCount++, error recorded, then failed or pending; after
\* the await (listeners, retry delay) the for loop continues
Catch(err) ==
    LET o1 == [obj EXCEPT ![cur].retryCount = @ + 1, ![cur].error = err]
        st == CatchStatus(o1[cur])
    IN  /\ storedQueue' = SaveAfterStatus(o1, cur, st, err)
        /\ Advance(SetStatus(o1, cur, st, err))
        /\ UNCHANGED <<queue, nextId, params, hasParams, drainConv, task,
                       convs>>

\* top of while (true): snapshot the pending items; with none the loop
\* sleeps 5 s and looks again (a stuttering step)
DrainPass ==
    /\ pc = "top"
    /\ LET pend == SelectSeq(queue, LAMBDA i : obj[i].status = "pending")
       IN  /\ pend # <<>>
           /\ pendingMessages' = pend
    /\ idx' = 1
    /\ pc' = "iter"
    /\ UNCHANGED <<queue, obj, nextId, storedQueue, params, hasParams,
                   drainConv, task, convs, attempts>>
    /\ UNCHANGED <<svars, dvars, cvars, tok, call>>

\* body of the for loop up to the first await: the retry cap check, or the
\* start of processSingleMessage (status 'sending')
DrainBegin ==
    /\ pc = "iter"
    /\ IF RetriesExhausted(obj[cur])
       THEN /\ storedQueue' =
                  SaveAfterStatus(obj, cur, "failed", "Max retries exceeded")
            /\ Advance(SetStatus(obj, cur, "failed", "Max retries exceeded"))
       ELSE /\ UpdateMessageStatus(obj, cur, "sending", Undefined)
            /\ pc' = "sending"
            /\ attempts' = [attempts EXCEPT ![cur] = @ + 1]
            /\ UNCHANGED <<pendingMessages, idx>>
    /\ UNCHANGED <<queue, nextId, params, hasParams, drainConv, task, convs>>
    /\ UNCHANGED <<svars, dvars, cvars, tok, call>>

\* listeners notified; AsyncStorage.getItem(`queue_params_${id}`) issued
DrainReadParams ==
    /\ pc = "sending"
    /\ hasParams' = (cur \in params)
    /\ pc' = "params"
    /\ UNCHANGED <<queue, obj, nextId, storedQueue, params, pendingMessages,
                   idx, drainConv, task, convs, attempts>>
    /\ UNCHANGED <<svars, dvars, cvars, tok, call>>

\* if (!paramsRaw) throw new Error('Send parameters not found')
DrainNoParams ==
    /\ pc = "params"
    /\ ~hasParams
    /\ Catch("Send parameters not found")
    /\ UNCHANGED <<svars, dvars, cvars, tok, call>>

\* the connectivity probe fails ('No internet connection') or generateText
\* rejects: the error text differs, the handling does not
DrainNetworkError ==
    /\ pc = "params"
    /\ hasParams
    /\ Catch("No internet connection")
    /\ UNCHANGED <<svars, dvars, cvars, tok, call>>

\* generateText resolves; loadConversation(conversationId) is issued
DrainResponse ==
    /\ pc = "params"
    /\ hasParams
    /\ drainConv' = loadConversation(obj[cur].conversationId)
    /\ pc' = "loaded"
    /\ UNCHANGED <<queue, obj, nextId, storedQueue, params, pendingMessages,
                   idx, hasParams, task, convs, attempts>>
    /\ UNCHANGED <<svars, dvars, cvars, tok, call>>

\* if (conversation) { push the pair; saveConversation }; without a record
\* the code goes straight on to updateMessageStatus(id, 'sent')
DrainSave ==
    /\ pc = "loaded"
    /\ IF drainConv # <<>>
       THEN /\ convs' = saveConversation(obj[cur].conversationId,
                                         PushPair(drainConv[1], cur))
            /\ pc' = "saved"
            /\ UNCHANGED <<obj, storedQueue>>
       ELSE /\ UpdateMessageStatus(obj, cur, "sent", Undefined)
            /\ pc' = "sent"
            /\ UNCHANGED convs
    /\ drainConv' = <<>>
    /\ UNCHANGED <<queue, nextId, params, pendingMessages, idx, hasParams,
                   task, attempts>>
    /\ UNCHANGED <<svars, dvars, cvars, tok, call>>

\* await this.updateMessageStatus(queuedMessage.id, 'sent')
DrainMarkSent ==
    /\ pc = "saved"
    /\ UpdateMessageStatus(obj, cur, "sent", Undefined)
    /\ pc' = "sent"
    /\ UNCHANGED <<queue, nextId, params, pendingMessages, idx, hasParams,
                   drainConv, task, convs, attempts>>
    /\ UNCHANGED <<svars, dvars, cvars, tok, call>>

\* await this.removeMessage(queuedMessage.id), up to its first await
DrainRemove ==
    /\ pc = "sent"
    /\ queue' = RemoveFromQueue(queue, cur)
    /\ IF Len(queue') < Len(queue)
       THEN /\ storedQueue' = Snapshot(queue', obj)
            /\ pc' = "removing"
            /\ UNCHANGED <<pendingMessages, idx, obj, attempts>>
       ELSE /\ Advance(obj)
            /\ UNCHANGED storedQueue
    /\ UNCHANGED <<nextId, params, hasParams, drainConv, task, convs>>
    /\ UNCHANGED <<svars, dvars, cvars, tok, call>>

\* await AsyncStorage.removeItem(`queue_params_${id}`); after it listeners
\* are notified and the for loop continues
DrainRemoveParams ==
    /\ pc = "removing"
    /\ params' = params \ {cur}
    /\ Advance(obj)
    /\ UNCHANGED <<queue, nextId, storedQueue, hasParams, drainConv, task,
                   convs>>
    /\ UNCHANGED <<svars, dvars, cvars, tok, call>>

(***************************************************************************)
(* Calls of the queue's public methods.  Each ends with an await of its    *)
(* last write followed by notifyListeners(), which changes no state: the   *)
(* call is over, for the model, with its last write.                       *)
(***************************************************************************)
Idle == [op |-> "none", pc |-> "idle", id |-> 0, arr |-> <<>>]

\* addMessage up to the await of the params write
AddMessage(c) ==
    /\ task = Idle
    /\ nextId <= MaxItems
    /\ obj' = [obj EXCEPT ![nextId] = NewQueuedMessage(nextId, c)]
    /\ params' = params \cup {nextId}
    /\ task' = [op |-> "add", pc |-> "push", id |-> nextId, arr |-> <<>>]
    /\ nextId' = nextId + 1
    /\ UNCHANGED <<queue, storedQueue, pc, pendingMessages, idx, hasParams,
                   drainConv, convs, attempts>>
    /\ UNCHANGED <<svars, dvars, cvars, tok, call>>

\* this.queue.push(queuedMessage); await this.saveQueue()
AddPush ==
    /\ task.op = "add"
    /\ task.pc = "push"
    /\ queue' = Append(queue, task.id)
    /\ storedQueue' = Snapshot(queue', obj)
    /\ task' = Idle
    /\ UNCHANGED <<obj, nextId, params, pc, pendingMessages, idx, hasParams,
                   drainConv, convs, attempts>>
    /\ UNCHANGED <<svars, dvars, cvars, tok, call>>

\* removeMessage(id) up to the await of saveQueue; a call with an id that is
\* not queued returns false and changes nothing
RemoveMessage(id) ==
    /\ task = Idle
    /\ id \in Range(queue)
    /\ queue' = RemoveFromQueue(queue, id)
    /\ Len(queue') < Len(queue)
    /\ storedQueue' = Snapshot(queue', obj)
    /\ task' = [op |-> "remove", pc |-> "params", id |-> id, arr |-> <<>>]
    /\ LET live == Range(queue') \cup DrainRefs(pendingMessages, idx)
       IN  /\ obj' = Collect(obj, live)
           /\ attempts' = CollectAttempts(attempts, live)
    /\ UNCHANGED <<nextId, params, pc, pendingMessages, idx, hasParams,
                   drainConv, convs>>
    /\ UNCHANGED <<svars, dvars, cvars, tok, call>>

\* await AsyncStorage.removeItem(`queue_params_${id}`)
RemoveParams ==
    /\ task.op = "remove"
    /\ task.pc = "params"
    /\ params' = params \ {task.id}
    /\ task' = Idle
    /\ UNCHANGED <<queue, obj, nextId, storedQueue, pc, pendingMessages, idx,
                   hasParams, drainConv, convs, attempts>>
    /\ UNCHANGED <<svars, dvars, cvars, tok, call>>

ResetFailedKeepCount(o) ==
    [i \in ItemIds |->
        IF i \in Range(queue) /\ o[i].status = "failed"
        THEN [o[i] EXCEPT !.status = "pending", !.error = Undefined]
        ELSE o[i]]

\* the objects after retryFailedMessages' loop
ResetFailed(o) ==
    [i \in ItemIds |->
        IF i \in Range(queue) /\ o[i].status = "failed"
        THEN [o[i] EXCEPT !.status = "pending", !.retryCount = 0,
                          !.error = Undefined]
        ELSE o[i]]

\* retryFailedMessages up to the await of saveQueue
RetryFailedMessages ==
    /\ task = Idle
    /\ obj' = ResetFailed(obj)
    /\ storedQueue' = Snapshot(queue, obj')
    /\ attempts' = [i \in ItemIds |->
                      IF i \in Range(queue) /\ obj[i].status = "failed"
                      THEN 0 ELSE attempts[i]]
    /\ task' = [op |-> "retry", pc |-> "notify", id |-> 0,
                 arr |-> SelectSeq(queue, LAMBDA i : obj[i].status = "failed")]
    /\ UNCHANGED <<queue, nextId, params, pc, pendingMessages, idx, hasParams,
                   drainConv, convs>>
    /\ UNCHANGED <<svars, dvars, cvars, tok, call>>

\* retryFailedMessages resumes: listeners, the log line with
\* failedMessages.length, return
RetryDone ==
    /\ task.op = "retry"
    /\ task' = Idle
    /\ UNCHANGED <<queue, obj, nextId, storedQueue, params, pc,
                   pendingMessages, idx, hasParams, drainConv, convs, attempts>>
    /\ UNCHANGED <<svars, dvars, cvars, tok, call>>

\* this.queue = []; await this.saveQueue()
ClearFinish ==
    /\ queue' = <<>>
    /\ storedQueue' = <<>>
    /\ task' = Idle
    /\ LET live == DrainRefs(pendingMessages, idx)
       IN  /\ obj' = Collect(obj, live)
           /\ attempts' = CollectAttempts(attempts, live)

\* clearQueue up to its first await: the first removeItem of the loop, or
\* with an empty queue the reset itself
ClearQueue ==
    /\ task = Idle
    /\ IF queue = <<>>
       THEN /\ ClearFinish
            /\ UNCHANGED params
       ELSE /\ params' = params \ {queue[1]}
            /\ task' = [op |-> "clear", pc |-> "loop", id |-> 1, arr |-> queue]
            /\ UNCHANGED <<queue, obj, storedQueue, attempts>>
    /\ UNCHANGED <<nextId, pc, pendingMessages, idx, hasParams, drainConv,
                   convs>>
    /\ UNCHANGED <<svars, dvars, cvars, tok, call>>

\* the loop of clearQueue resumes: the next removeItem, or the reset
ClearStep ==
    /\ task.op = "clear"
    /\ task.pc = "loop"
    /\ IF task.id < Len(task.arr)
       THEN /\ params' = params \ {task.arr[task.id + 1]}
            /\ task' = [task EXCEPT !.id = @ + 1]
            /\ UNCHANGED <<queue, obj, storedQueue, attempts>>
       ELSE /\ ClearFinish
            /\ UNCHANGED params
    /\ UNCHANGED <<nextId, pc, pendingMessages, idx, hasParams, drainConv,
                   convs>>
    /\ UNCHANGED <<svars, dvars, cvars, tok, call>>

QueueNext ==
    \/ DrainPass
    \/ DrainBegin
    \/ DrainReadParams
    \/ DrainNoParams
    \/ DrainNetworkError
    \/ DrainResponse
    \/ DrainSave
    \/ DrainMarkSent
    \/ DrainRemove
    \/ DrainRemoveParams
    \/ \E c \in ConvIds : AddMessage(c)
    \/ AddPush
    \/ \E id \in ItemIds : RemoveMessage(id)
    \/ RemoveParams
    \/ RetryFailedMessages
    \/ RetryDone
    \/ ClearQueue
    \/ ClearStep

QueueSpec == Init /\ [][QueueNext]_vars

(***************************************************************************)
(* Properties of the message queue.                                        *)
(***************************************************************************)
Queued == Range(queue)

\* the drain loop is inside processSingleMessage for item i
InAttempt(i) ==
    /\ pc \in {"sending", "params", "loaded", "saved", "sent", "removing"}
    /\ cur = i

\* a message of item i (the queued message or the reply to it) is stored in
\* some conversation
Appended(i) ==
    \E c \in DOMAIN convs : \E k \in 1..Len(convs[c].messages) :
        convs[c].messages[k].id \in {2 * i, 2 * i + 1}

\* C1: between two resets by retryFailedMessages an item is attempted at
\* most maxRetries times; an item is failed only after exactly maxRetries
\* attempts, and once the maxRetries-th attempt has failed it is failed
\* (so no drain pass, which picks pending items only, attempts it again).
C1_RetryBound ==
    \A i \in Queued \cup DrainRefs(pendingMessages, idx) :
        /\ attempts[i] <= MAX_RETRIES
        /\ (i \in Queued /\ obj[i].status = "failed")
              => attempts[i] = MAX_RETRIES
        /\ (i \in Queued /\ attempts[i] = MAX_RETRIES /\ ~InAttempt(i))
              => obj[i].status = "failed"

C1_Witness ==
    \E i \in Queued :
        /\ obj[i].status = "failed"
        /\ attempts[i] = MAX_RETRIES
        /\ pc = "top"

C3_DeliveryAppends ==
    [][/\ (pc = "loaded" /\ pc' # "loaded") =>
            LET c == obj[cur].conversationId
            IN  /\ c \in DOMAIN convs'
                /\ \E n \in 1..Len(convs'[c].messages) :
                      /\ n + 1 = Len(convs'[c].messages)
                      /\ convs'[c].messages[n] = QueuedUserMessage(cur)
                      /\ convs'[c].messages[n + 1] = AiMessage(cur)
       /\ (pc = "sent" /\ pc' # "sent") =>
            /\ cur \notin Range(queue')
            /\ \A k \in 1..Len(storedQueue') : storedQueue'[k].id # cur
       /\ (pc = "removing" /\ pc' # "removing") => cur \notin params'
      ]_vars

\* C4: every queued item has 0 <= retryCount <= maxRetries, in memory and
\* in the persisted index, and an item with status sent is in the queue only
\* while the drain loop is between marking it sent and removing it.
C4_RetryCountBounded ==
    /\ \A i \in Queued :
          /\ 0 <= obj[i].retryCount
          /\ obj[i].retryCount <= obj[i].maxRetries
          /\ obj[i].status = "sent" => (pc = "sent" /\ cur = i)
    /\ \A k \in 1..Len(storedQueue) :
          /\ 0 <= storedQueue[k].retryCount
          /\ storedQueue[k].retryCount <= storedQueue[k].maxRetries

C4_Witness ==
    /\ \E i \in Queued : obj[i].retryCount = obj[i].maxRetries
    /\ \E i \in ItemIds : i < nextId /\ i \notin Queued /\ Appended(i)

\* C5: the status of a queued item changes only along pending -> sending,
\* sending -> sent | pending (retryCount + 1 < maxRetries) | failed
\* (retryCount + 1 >= maxRetries), pending -> failed at the cap; an item
\* enters the queue pending with retryCount 0; a failed item is not
\* attempted and leaves failed only in a step that is not the drain loop's
\* and resets every failed item to pending with retryCount 0.
C5_StatusTransitions ==
    [][/\ \A i \in Range(queue') \ Queued :
            obj'[i].status = "pending" /\ obj'[i].retryCount = 0
       /\ \A i \in Queued \cap Range(queue') :
            LET a == obj[i]
                b == obj'[i]
            IN  /\ (a.status = "failed") => (attempts'[i] <= attempts[i])
                /\ (a.status # b.status) =>
                     \/ /\ a.status = "pending"
                        /\ b.status = "sending"
                        /\ b.retryCount = a.retryCount
                     \/ /\ a.status = "sending"
                        /\ b.status = "sent"
                        /\ b.retryCount = a.retryCount
                     \/ /\ a.status = "sending"
                        /\ b.status = "pending"
                        /\ b.retryCount = a.retryCount + 1
                        /\ b.retryCount < b.maxRetries
                     \/ /\ a.status = "sending"
                        /\ b.status = "failed"
                        /\ b.retryCount = a.retryCount + 1
                        /\ b.retryCount >= b.maxRetries
                     \/ /\ a.status = "pending"
                        /\ b.status = "failed"
                        /\ a.retryCount >= a.maxRetries
                     \/ /\ a.status = "failed"
                        /\ b.status = "pending"
                        /\ b.retryCount = 0
                        /\ pc' = pc
                        /\ \A j \in Queued : obj[j].status = "failed" =>
                              /\ obj'[j].status = "pending"
                              /\ obj'[j].retryCount = 0
      ]_vars

C5_Witness ==
    /\ task.op = "retry"
    /\ \E k \in 1..Len(task.arr) :
          /\ task.arr[k] \in Queued
          /\ obj[task.arr[k]].status = "sending"
          /\ obj[task.arr[k]].retryCount = 0

\* C18: queued messages are delivered in the order they were enqueued: in
\* every stored conversation the queued user messages appear in the order
\* of their addMessage calls (item ids are handed out in call order), also
\* when an earlier item's first attempt failed and was retried.
C18_FifoDelivery ==
    \A c \in DOMAIN convs :
        \A p, q \in 1..Len(convs[c].messages) :
            (/\ p < q
             /\ convs[c].messages[p].role = "user"
             /\ convs[c].messages[q].role = "user")
                => convs[c].messages[p].id <= convs[c].messages[q].id

C28_NoAppendAfterRemoval ==
    [][ \A i \in ItemIds :
            (~Appended(i) /\ Appended(i)') =>
                (i \in Range(queue) \/ task # Idle)
      ]_vars

(***************************************************************************)
(* The versioned conversation store (src/utils/conversations.ts).          *)
(* Message indexes are 1-based here and 0-based in the code.  A message    *)
(* without a versions array has versions = <<>>; version timestamps and    *)
(* editHistory are left out, no operation reads them.                      *)
(***************************************************************************)
\* cap on the length of a versions array
MaxVersions == 3

\* text a saved edit may carry
EditTexts == {"x"}

\* text a call of the plain editMessage may write
PlainTexts == {"z"}

\* <<text, selectedProvider>> of a regenerated reply
Replies == {<<"r1", "gemini">>, <<"r2", "openai">>}

Version(text, provider, number, active) ==
    [text |-> text, provider |-> provider, version |-> number,
     isActive |-> active]

\* message.versions.forEach(v => v.isActive = false)
Deactivate(vs) == [k \in 1..Len(vs) |-> [vs[k] EXCEPT !.isActive = FALSE]]

\* if (!message.versions) message.versions = [version 1 from the message]
InitVersions(m) ==
    IF m.versions = <<>>
    THEN <<Version(m.text, m.provider, 1, FALSE)>>
    ELSE m.versions

\* editMessage: only the top-level text is replaced
editMessage(msgs, i, newText) == [msgs EXCEPT ![i].text = newText]

\* conversation.messages.splice(messageIndex, 1)
Splice(seq, i) == SubSeq(seq, 1, i - 1) \o SubSeq(seq, i + 1, Len(seq))

\* version: message.versions.length + 1
NextVersionNumber(vs) == Len(vs) + 1

editMessageWithVersionsKeepActive(msgs, i, newText) ==
    LET vs == InitVersions(msgs[i])
        nv == Version(newText, msgs[i].provider, NextVersionNumber(vs), TRUE)
    IN  [msgs EXCEPT ![i].versions = vs \o <<nv>>, ![i].text = newText]

\* editMessageWithVersions on the loaded messages
editMessageWithVersions(msgs, i, newText) ==
    LET vs == InitVersions(msgs[i])
        nv == Version(newText, msgs[i].provider, NextVersionNumber(vs), TRUE)
    IN  [msgs EXCEPT ![i].versions = Deactivate(vs) \o <<nv>>,
                     ![i].text = newText]

\* addResponseVersion on the loaded messages; corr = 0 stands for an absent
\* (or zero, equally falsy) correlatedVersion
addResponseVersion(msgs, i, newText, provider, corr) ==
    LET vs == InitVersions(msgs[i])
        number == IF corr # 0 THEN corr ELSE NextVersionNumber(vs)
        nv == Version(newText, provider, number, TRUE)
    IN  [msgs EXCEPT ![i].versions = Deactivate(vs) \o <<nv>>,
                     ![i].text = newText,
                     ![i].provider = provider]

\* versions.find(v => v.version === n): the first match
HasVersion(vs, n) == \E k \in 1..Len(vs) : vs[k].version = n

FindVersion(vs, n) ==
    CHOOSE k \in 1..Len(vs) :
        /\ vs[k].version = n
        /\ \A j \in 1..(k - 1) : vs[j].version # n

\* the fallback taken to be the oldest version
LatestVersionOldest(vs) == 1

\* versions.reduce((latest, current) =>
\*     current.version > latest.version ? current : latest)
LatestVersion(vs) ==
    CHOOSE k \in 1..Len(vs) :
        /\ \A j \in 1..Len(vs) : vs[j].version <= vs[k].version
        /\ \A j \in 1..(k - 1) : vs[j].version < vs[k].version

\* all versions inactive, the k-th active, text and provider mirrored
ActivateVersion(m, k) ==
    [m EXCEPT !.versions =
                  [j \in 1..Len(m.versions) |->
                      [m.versions[j] EXCEPT !.isActive = (j = k)]],
              !.text = m.versions[k].text,
              !.provider = m.versions[k].provider]

\* switchToMessageVersion returns false: no message, no versions, no target
CanSwitch(msgs, i, n) ==
    /\ i \in 1..Len(msgs)
    /\ msgs[i].versions # <<>>
    /\ HasVersion(msgs[i].versions, n)

\* the switch of a user message reaches the reply that follows it
Cascades(msgs, i) ==
    /\ msgs[i].role = "user"
    /\ i + 1 <= Len(msgs)
    /\ msgs[i + 1].role = "model"
    /\ msgs[i + 1].versions # <<>>

switchToMessageVersionAlwaysLatest(msgs, i, n) ==
    LET m1 == [msgs EXCEPT
                 ![i] = ActivateVersion(@, FindVersion(@.versions, n))]
    IN  IF Cascades(msgs, i)
        THEN [m1 EXCEPT
                ![i + 1] = ActivateVersion(@, LatestVersion(@.versions))]
        ELSE m1

\* switchToMessageVersion on the loaded messages
switchToMessageVersion(msgs, i, n) ==
    LET m1 == [msgs EXCEPT
                 ![i] = ActivateVersion(@, FindVersion(@.versions, n))]
    IN  IF Cascades(msgs, i)
        THEN [m1 EXCEPT
                ![i + 1] =
                    IF HasVersion(@.versions, n)
                    THEN ActivateVersion(@, FindVersion(@.versions, n))
                    ELSE ActivateVersion(@, LatestVersion(@.versions))]
        ELSE m1

\* the version number of the active version: versions.find(v => v.isActive)
IsActiveVersion(m, n) ==
    \E k \in 1..Len(m.versions) :
        /\ m.versions[k].isActive
        /\ m.versions[k].version = n
        /\ \A j \in 1..(k - 1) : ~m.versions[j].isActive

CorrelatedVersionNumberAlwaysOne(m) == 1

\* activeVersion?.version || 1
CorrelatedVersionNumber(m) ==
    IF \E k \in 1..Len(m.versions) : m.versions[k].isActive
    THEN m.versions[CHOOSE k \in 1..Len(m.versions) :
                        /\ m.versions[k].isActive
                        /\ \A j \in 1..(k - 1) : ~m.versions[j].isActive
                   ].version
    ELSE 1

(***************************************************************************)
(* The store's calls.  Each is a load-mutate-save round trip made by one   *)
(* UI handler; the handlers are awaited one at a time, except that a saved *)
(* edit waits for the adapter before it adds the regenerated reply.        *)
(***************************************************************************)
NoRegen ==
    [kind |-> "none", conv |-> "c1", user |-> 0, ai |-> 0, corr |-> 0,
     snap |-> <<>>, clean |-> TRUE]

Messages(c) == convs[c].messages

\* saveConversation of the loaded record with its messages replaced
Save(c, msgs) ==
    convs' = saveConversation(c, [convs[c] EXCEPT !.messages = msgs])

\* another call changed the conversation while a regeneration is awaited
Disturb == regen' = [regen EXCEPT !.clean = FALSE]

\* history: the log of message i restarts after a call other than
\* editMessageWithVersions wrote it; <<text>> while the message is still
\* unversioned, <<>> (not followed any more) once it has versions
Relog(m) == IF m.versions = <<>> THEN <<m.text>> ELSE <<>>

Taint(e, i, msgs) == [e EXCEPT ![i] = Relog(msgs[i])]

\* editMessage(conversationId, messageIndex, newText)
EditMessage(c, i, t) ==
    /\ c \in DOMAIN convs
    /\ i \in 1..Len(Messages(c))
    /\ Save(c, editMessage(Messages(c), i, t))
    /\ edits' = [edits EXCEPT ![c] = Taint(@, i, convs'[c].messages)]
    /\ lastOp' = "none"
    /\ Disturb
    /\ UNCHANGED <<qvars, dvars, cvars, tok, call>>

\* handleDeleteMessage: deleteMessage(conversationId, messageIndex)
DeleteMessage(c, i) ==
    /\ c \in DOMAIN convs
    /\ i \in 1..Len(Messages(c))
    /\ Save(c, Splice(Messages(c), i))
    /\ edits' = [edits EXCEPT ![c] = Splice(@, i)]
    /\ lastOp' = "none"
    /\ Disturb
    /\ UNCHANGED <<qvars, dvars, cvars, tok, call>>

\* handleVersionSwitch: switchToMessageVersion(conversationId, i, n)
SwitchToMessageVersion(c, i, n) ==
    /\ c \in DOMAIN convs
    /\ CanSwitch(Messages(c), i, n)
    /\ Save(c, switchToMessageVersion(Messages(c), i, n))
    /\ edits' = [edits EXCEPT ![c] =
                    IF Cascades(Messages(c), i)
                    THEN Taint(Taint(@, i, convs'[c].messages), i + 1,
                               convs'[c].messages)
                    ELSE Taint(@, i, convs'[c].messages)]
    /\ lastOp' = IF IsActiveVersion(Messages(c)[i], n)
                 THEN "switch" ELSE "none"
    /\ Disturb
    /\ UNCHANGED <<qvars, dvars, cvars, tok, call>>

\* handleSaveEditedMessage up to the adapter call: editMessageWithVersions,
\* reload, then generateNewResponseVersion for a user message followed by a
\* reply, generateNewResponseFromEdit for a user message without one.  For
\* a message of role model it is the bare editMessageWithVersions call (the
\* message bubble offers Edit on user messages, the store takes any index).
HandleSaveEditedMessage(c, i, t) ==
    /\ regen.kind = "none"
    /\ c \in DOMAIN convs
    /\ i \in 1..Len(Messages(c))
    /\ Len(InitVersions(Messages(c)[i])) < MaxVersions
    /\ LET msgs == editMessageWithVersions(Messages(c), i, t)
       IN  /\ Save(c, msgs)
           /\ regen' =
                IF msgs[i].role # "user" THEN NoRegen
                ELSE IF i + 1 <= Len(msgs) /\ msgs[i + 1].role = "model"
                THEN [kind |-> "version", conv |-> c, user |-> i,
                      ai |-> i + 1, corr |-> CorrelatedVersionNumber(msgs[i]),
                      snap |-> <<>>, clean |-> TRUE]
                ELSE [kind |-> "fresh", conv |-> c, user |-> i, ai |-> 0,
                      corr |-> 0, snap |-> SubSeq(msgs, 1, i),
                      clean |-> TRUE]
    /\ edits' = [edits EXCEPT ![c][i] = IF @ = <<>> THEN @ ELSE Append(@, t)]
    /\ lastOp' = "editv"
    /\ UNCHANGED <<qvars, dvars, cvars, tok, call>>

\* generateNewResponseVersion resumes with the adapter's text:
\* addResponseVersion(conversation.id, aiMessageIndex, text,
\*                    selectedProvider, correlatedVersionNumber)
RegenVersionComplete(t, p) ==
    /\ regen.kind = "version"
    /\ LET c == regen.conv
           i == regen.ai
       IN  IF c \in DOMAIN convs /\ i \in 1..Len(Messages(c))
           THEN /\ Len(InitVersions(Messages(c)[i])) < MaxVersions
                /\ Save(c, addResponseVersion(Messages(c), i, t, p,
                                              regen.corr))
                /\ edits' = [edits EXCEPT
                               ![c] = Taint(@, i, convs'[c].messages)]
                /\ lastOp' = IF regen.clean THEN "addv" ELSE "none"
           ELSE UNCHANGED <<convs, edits, lastOp>>
    /\ regen' = NoRegen
    /\ UNCHANGED <<qvars, dvars, cvars, tok, call>>

\* generateNewResponseFromEdit resumes with the adapter's text: the record
\* is saved with messages = [...messagesUpToEdit, newAiMessage]
RegenFreshComplete(t, p) ==
    /\ regen.kind = "fresh"
    /\ regen.conv \in DOMAIN convs
    /\ Save(regen.conv, Append(regen.snap, Msg("model", t, p, 0)))
    /\ edits' = [edits EXCEPT ![regen.conv] =
                    [k \in 1..(Len(regen.snap) + 1) |->
                        Relog(convs'[regen.conv].messages[k])]]
    /\ lastOp' = "none"
    /\ regen' = NoRegen
    /\ UNCHANGED <<qvars, dvars, cvars, tok, call>>

\* the adapter call fails, or no API key is set: nothing is added
RegenFail ==
    /\ regen.kind # "none"
    /\ regen' = NoRegen
    /\ UNCHANGED <<convs, edits, lastOp>>
    /\ UNCHANGED <<qvars, dvars, cvars, tok, call>>

\* a stored conversation: a user message and the reply to it
StoreInit ==
    /\ queue = <<>>
    /\ obj = [i \in ItemIds |-> NewQueuedMessage(i, "c1")]
    /\ nextId = 1
    /\ storedQueue = <<>>
    /\ params = {}
    /\ pc = "top"
    /\ pendingMessages = <<>>
    /\ idx = 0
    /\ hasParams = FALSE
    /\ drainConv = <<>>
    /\ task = Idle
    /\ attempts = [i \in ItemIds |-> 0]
    /\ convs = [c \in {"c1"} |->
                  [messages |-> <<Msg("user", "q", Undefined, 0),
                                  Msg("model", "a", "gemini", 0)>>]]
    /\ regen = NoRegen
    /\ lastOp = "none"
    /\ edits = [c \in {"c1"} |-> << <<"q">>, <<"a">> >>]
    /\ StoreUnused
    /\ CacheUnused

StoreNext ==
    \/ \E c \in ConvIds, i \in 1..2, t \in PlainTexts : EditMessage(c, i, t)
    \/ \E c \in ConvIds, i \in 1..2 : DeleteMessage(c, i)
    \/ \E c \in ConvIds, i \in 1..2, n \in 1..(MaxVersions + 1) :
          SwitchToMessageVersion(c, i, n)
    \/ \E c \in ConvIds, i \in 1..2, t \in EditTexts :
          HandleSaveEditedMessage(c, i, t)
    \/ \E r \in Replies : RegenVersionComplete(r[1], r[2])
    \/ \E r \in Replies : RegenFreshComplete(r[1], r[2])
    \/ RegenFail

StoreSpec == StoreInit /\ [][StoreNext]_vars

(***************************************************************************)
(* Properties of the versioned store.                                      *)
(***************************************************************************)
Versioned(c) == {i \in 1..Len(Messages(c)) : Messages(c)[i].versions # <<>>}

ActiveIn(vs) == {k \in 1..Len(vs) : vs[k].isActive}

\* C6: in every persisted conversation, each message that has a versions
\* list has at most one active version, and the message's top-level text
\* and provider equal the text and provider of that active version.
C6_ActiveMirror ==
    \A c \in DOMAIN convs : \A i \in Versioned(c) :
        LET m == Messages(c)[i]
        IN  /\ Cardinality(ActiveIn(m.versions)) <= 1
            /\ \A k \in ActiveIn(m.versions) :
                  /\ m.text = m.versions[k].text
                  /\ m.provider = m.versions[k].provider

\* C7: a message that was unversioned and has since been written by N >= 1
\* editMessageWithVersions calls only (edits holds its pre-edit text and
\* the N edited texts) has exactly N + 1 versions, numbered 1..N+1, version
\* 1 holding the pre-edit text and version k + 1 the text of the k-th edit;
\* exactly one version is active, the one the last edit created.
C7_EditsMakeVersions ==
    \A c \in DOMAIN convs : \A i \in 1..Len(Messages(c)) :
        LET log == edits[c][i]
            m == Messages(c)[i]
        IN  Len(log) >= 2 =>
               /\ Len(m.versions) = Len(log)
               /\ \A k \in 1..Len(log) :
                     /\ m.versions[k].version = k
                     /\ m.versions[k].text = log[k]
                     /\ m.versions[k].isActive <=> (k = Len(log))
               /\ m.text = log[Len(log)]

C7_Witness ==
    /\ lastOp = "editv"
    /\ \E i \in 1..Len(Messages("c1")) :
          /\ Len(edits["c1"][i]) = 3
          /\ edits["c1"][i][1] # edits["c1"][i][3]
          /\ Len(Messages("c1")[i].versions) = 3

\* C8: within every message's versions list the version numbers start at 1
\* and are strictly increasing in list order, so that no number appears
\* twice.
C8_NumbersIncreasing ==
    \A c \in DOMAIN convs : \A i \in Versioned(c) :
        LET vs == Messages(c)[i].versions
        IN  /\ vs[1].version = 1
            /\ \A k \in 1..(Len(vs) - 1) : vs[k].version < vs[k + 1].version

\* the step is the save of an edit of a user message followed by a reply
SavesUserEdit == regen.kind = "none" /\ regen'.kind = "version"

\* the step is the regeneration's addResponseVersion
AddsResponseVersion ==
    /\ regen.kind = "version"
    /\ regen'.kind = "none"
    /\ convs' # convs

\* C9: saving an edit of a user message at i that is followed by an
\* assistant message at i + 1 keeps the number of messages; a first edit
\* makes the user message's versions [1: old text, inactive; 2: new text,
\* active]; the successful regeneration keeps the number of messages and
\* appends to the message at i + 1 one version, the only active one, whose
\* number is that of the version the edit made active, which is the user
\* message's active version when no other call came in between.
C9_EditRegeneratesVersion ==
    [][ /\ SavesUserEdit =>
              LET c == regen'.conv
                  i == regen'.user
                  old == convs[c].messages
                  new == convs'[c].messages
              IN  /\ Len(new) = Len(old)
                  /\ new[i + 1] = old[i + 1]
                  /\ old[i].versions = <<>> =>
                        /\ new[i].versions =
                              <<Version(old[i].text, old[i].provider, 1, FALSE),
                                Version(new[i].text, old[i].provider, 2, TRUE)>>
                        /\ new[i].text \in EditTexts
                  /\ IsActiveVersion(new[i], regen'.corr)
        /\ AddsResponseVersion =>
              LET c == regen.conv
                  i == regen.ai
                  old == convs[c].messages
                  new == convs'[c].messages
                  vs == new[i].versions
              IN  /\ Len(new) = Len(old)
                  /\ \A j \in 1..Len(old) : j # i => new[j] = old[j]
                  /\ Len(vs) = Len(InitVersions(old[i])) + 1
                  /\ ActiveIn(vs) = {Len(vs)}
                  /\ vs[Len(vs)].version = regen.corr
                  /\ new[i].text = vs[Len(vs)].text
                  /\ new[i].provider = vs[Len(vs)].provider
                  /\ regen.clean =>
                        IsActiveVersion(new[regen.user], vs[Len(vs)].version)
      ]_vars

C9_Witness ==
    /\ lastOp = "addv"
    /\ Len(Messages("c1")) = 2
    /\ Len(Messages("c1")[1].versions) = 2
    /\ Messages("c1")[1].versions[1].text = "q"
    /\ Len(Messages("c1")[2].versions) = 2
    /\ Messages("c1")[2].versions[2].version = 2
    /\ Messages("c1")[2].versions[2].isActive

\* the call switchToMessageVersion(c, i, n) made with n the active version
SwitchToActive(c, i, n) ==
    /\ lastOp' = "switch"
    /\ i \in 1..Len(Messages(c))
    /\ IsActiveVersion(Messages(c)[i], n)
    /\ SwitchToMessageVersion(c, i, n)

\* C10 as stated: switchToMessageVersion(c, i, n) with n the version of
\* message i that is already active leaves the persisted messages of the
\* conversation identical.
C10_SwitchToActiveIsIdentity ==
    [][ \A c \in DOMAIN convs, i \in 1..2, n \in 1..MaxVersions :
            SwitchToActive(c, i, n) => Messages(c)' = Messages(c)
      ]_vars

\* version lists equal up to the isActive flags
SameVersions(a, b) ==
    /\ Len(a) = Len(b)
    /\ \A k \in 1..Len(a) : [a[k] EXCEPT !.isActive = FALSE]
                              = [b[k] EXCEPT !.isActive = FALSE]

\* the one active version of m is the first one numbered n, and the
\* top-level text and provider are that version's
PointsAt(m, n) ==
    \E k \in 1..Len(m.versions) :
        /\ m.versions[k].version = n
        /\ \A j \in 1..(k - 1) : m.versions[j].version # n
        /\ ActiveIn(m.versions) = {k}
        /\ m.text = m.versions[k].text
        /\ m.provider = m.versions[k].provider

Numbers(vs) == {vs[k].version : k \in 1..Len(vs)}

\* C10, amended: switchToMessageVersion(c, i, n) with n the version of
\* message i that is already active creates and removes no version: the
\* number of messages and every message's role, id and versions (numbers,
\* texts, providers, order) stay as they were.  Message i ends pointing at
\* its first version numbered n.  When i is a user message followed by an
\* assistant message with versions, that message ends pointing at its
\* version n, or at its highest-numbered version when it has no version n;
\* every other message is identical to what it was.
C10_SwitchToActive ==
    [][ \A c \in DOMAIN convs, i \in 1..2, n \in 1..MaxVersions :
            SwitchToActive(c, i, n) =>
               LET old == Messages(c)
                   new == Messages(c)'
               IN  /\ Len(new) = Len(old)
                   /\ \A j \in 1..Len(old) :
                         /\ new[j].role = old[j].role
                         /\ new[j].id = old[j].id
                         /\ SameVersions(old[j].versions, new[j].versions)
                   /\ PointsAt(new[i], n)
                   /\ IF Cascades(old, i)
                      THEN LET ns == Numbers(old[i + 1].versions)
                               target == IF n \in ns THEN n
                                         ELSE CHOOSE x \in ns :
                                                 \A y \in ns : y <= x
                           IN  PointsAt(new[i + 1], target)
                      ELSE \A j \in 1..Len(old) : j = i + 1 => new[j] = old[j]
                   /\ \A j \in 1..Len(old) :
                         j \notin {i, i + 1} => new[j] = old[j]
      ]_vars

\* a switch of a user message to its active version has reached the
\* versioned reply that follows it
C10_Witness ==
    /\ lastOp = "switch"
    /\ Len(Messages("c1")) = 2
    /\ Messages("c1")[1].role = "user"
    /\ Messages("c1")[1].versions # <<>>
    /\ Messages("c1")[2].versions # <<>>
    /\ \E n \in 1..MaxVersions :
          /\ PointsAt(Messages("c1")[1], n)
          /\ PointsAt(Messages("c1")[2], n)

\* C21: switchToMessageVersion(c, i, n) on a user message followed by an
\* assistant message with versions leaves that assistant message pointing
\* at its version numbered n, or at its highest-numbered version when it
\* has none numbered n: exactly that version is active and the message's
\* text and provider are that version's.  A switch of an assistant message
\* leaves every other message as it was.
C21_CorrelatedSwitch ==
    [][ \A c \in DOMAIN convs, i \in 1..2, n \in 1..(MaxVersions + 1) :
            SwitchToMessageVersion(c, i, n) =>
               LET old == Messages(c)
                   new == Messages(c)'
               IN  /\ Len(new) = Len(old)
                   /\ (/\ old[i].role = "user"
                       /\ i + 1 <= Len(old)
                       /\ old[i + 1].role = "model"
                       /\ old[i + 1].versions # <<>>) =>
                         LET ns == Numbers(old[i + 1].versions)
                             target == IF n \in ns THEN n
                                       ELSE CHOOSE x \in ns :
                                               \A y \in ns : y <= x
                         IN  /\ PointsAt(new[i + 1], target)
                             /\ Cardinality(ActiveIn(new[i + 1].versions)) = 1
                             /\ SameVersions(old[i + 1].versions,
                                             new[i + 1].versions)
                   /\ old[i].role = "model" =>
                         \A j \in 1..Len(old) : j # i => new[j] = old[j]
      ]_vars

\* the user message was switched to its version 3, which the assistant
\* message that follows it does not have: that message points at its
\* highest-numbered version, 2
C21_Witness ==
    /\ lastOp = "switch"
    /\ Len(Messages("c1")) = 2
    /\ Messages("c1")[1].role = "user"
    /\ PointsAt(Messages("c1")[1], 3)
    /\ Numbers(Messages("c1")[2].versions) = {1, 2}
    /\ PointsAt(Messages("c1")[2], 2)

(***************************************************************************)
(* JavaScript strings.  A string is the sequence of its UTF-16 code units, *)
(* so that hashing, truncation, splitting and joining are computed on the  *)
(* characters.                                                             *)
(***************************************************************************)
\* str.substring(0, n)
Substring(str, n) == SubSeq(str, 1, IF Len(str) < n THEN Len(str) ELSE n)

RECURSIVE Join(_, _)
\* Array.prototype.join(sep)
Join(strs, sep) ==
    IF strs = <<>> THEN <<>>
    ELSE IF Len(strs) = 1 THEN strs[1]
    ELSE strs[1] \o sep \o Join(Tail(strs), sep)

\* the provider names 'gemini', 'openai', 'anthropic' as strings
ProviderName ==
    [gemini |-> <<103, 101, 109, 105, 110, 105>>,
     openai |-> <<111, 112, 101, 110, 97, 105>>,
     anthropic |-> <<97, 110, 116, 104, 114, 111, 112, 105, 99>>]

\* the roles 'user', 'model' as strings
RoleName ==
    [user |-> <<117, 115, 101, 114>>, model |-> <<109, 111, 100, 101, 108>>]

(***************************************************************************)
(* ResponseCache: the cache key (src/utils/responseCache.ts).              *)
(***************************************************************************)
\* hash = ((hash << 5) - hash) + char; hash = hash & hash.  The 32-bit
\* value is held as <<its high 16 bits, its low 16 bits>>.
HashStep(hash, char) ==
    LET x == 31 * hash[2] + char
    IN  <<(31 * hash[1] + x \div 65536) % 65536, x % 65536>>

RECURSIVE HashLoop(_, _, _, _)
\* for (let i = lo; i <= hi; i++) hash = step(hash, str[i]): the iterations
\* lo..mid first, then mid+1..hi (the test on half is always true; it has the
\* first half evaluated before the second is entered, which keeps the
\* evaluation shallow)
HashLoop(hash, str, lo, hi) ==
    IF lo > hi THEN hash
    ELSE IF lo = hi THEN HashStep(hash, str[lo])
    ELSE LET mid  == (lo + hi) \div 2
             half == HashLoop(hash, str, lo, mid)
         IN  IF half[1] >= 0 THEN HashLoop(half, str, mid + 1, hi) ELSE half

\* Math.abs of the 32-bit value read as a signed integer
Abs32(hash) ==
    IF hash[1] < 32768 THEN hash
    ELSE <<(65535 - hash[1] + (IF hash[2] = 0 THEN 1 ELSE 0)) % 65536,
           (65536 - hash[2]) % 65536>>

\* the digits '0'..'9', 'a'..'z'
Digit36(d) == IF d < 10 THEN 48 + d ELSE 87 + d

RECURSIVE ToString36(_)
\* Number.prototype.toString(36) of a non-negative value below 2^32
ToString36(n) ==
    LET mid == (n[1] % 36) * 65536 + n[2]
        q == <<n[1] \div 36, mid \div 36>>
    IN  IF q = <<0, 0>> THEN <<Digit36(mid % 36)>>
        ELSE ToString36(q) \o <<Digit36(mid % 36)>>

\* simpleHash(str)
simpleHash(str) == ToString36(Abs32(HashLoop(<<0, 0>>, str, 1, Len(str))))

\* history.slice(-5)
LastFive(history) ==
    SubSeq(history, IF Len(history) > 5 THEN Len(history) - 4 ELSE 1,
           Len(history))

\* generateHistoryHash: the turns are rendered `${role}:${text.substring(0,
\* 100)}` and joined with '|'
generateHistoryHash(history) ==
    LET turns == LastFive(history)
    IN  simpleHash(Join([k \in 1..Len(turns) |->
                            RoleName[turns[k].role] \o <<58>>
                                \o Substring(turns[k].text, 100)],
                        <<124>>))

\* no image: generateImageHash returns undefined
NoImage == [uri |-> <<>>, base64 |-> <<>>, present |-> FALSE]

\* generateImageHash: imageData.base64 || imageData.uri || '', cut to 200
generateImageHash(image) ==
    IF ~image.present THEN <<>>
    ELSE simpleHash(Substring(IF image.base64 # <<>> THEN image.base64
                              ELSE image.uri, 200))

\* '"' and '\' are escaped with a '\'
EscapeChar(char) == IF char \in {34, 92} THEN <<92, char>> ELSE <<char>>

RECURSIVE EscapeLoop(_, _, _)
\* the escaped characters lo..hi of str: those of lo..mid, then those of
\* mid+1..hi (which keeps the evaluation shallow)
EscapeLoop(str, lo, hi) ==
    IF lo > hi THEN <<>>
    ELSE IF lo = hi THEN EscapeChar(str[lo])
    ELSE EscapeLoop(str, lo, (lo + hi) \div 2)
            \o EscapeLoop(str, (lo + hi) \div 2 + 1, hi)

\* JSON.stringify of a string body: '"' and '\' are escaped (no text of the
\* model holds a control character)
JsonEscape(str) == EscapeLoop(str, 1, Len(str))

\* JSON.stringify(keyData); an undefined imageHash is left out.  request is
\* [prompt, provider, model, imageHash, historyHash], imageHash = <<>> for
\* undefined
KeyString(request) ==
    \* {"prompt":"
    <<123, 34, 112, 114, 111, 109, 112, 116, 34, 58, 34>>
        \o JsonEscape(Substring(request.prompt, 1000))
    \* ","provider":"
        \o <<34, 44, 34, 112, 114, 111, 118, 105, 100, 101, 114, 34, 58, 34>>
        \o ProviderName[request.provider]
    \* ","model":"
        \o <<34, 44, 34, 109, 111, 100, 101, 108, 34, 58, 34>>
        \o JsonEscape(request.model)
        \o (IF request.imageHash = <<>> THEN <<>>
            \* ","imageHash":"
            ELSE <<34, 44, 34, 105, 109, 97, 103, 101, 72, 97, 115, 104, 34,
                   58, 34>> \o request.imageHash)
    \* ","historyHash":"
        \o <<34, 44, 34, 104, 105, 115, 116, 111, 114, 121, 72, 97, 115,
             104, 34, 58, 34>>
        \o request.historyHash
    \* "}
        \o <<34, 125>>

\* CACHE_PREFIX = 'ai_response_cache_'
CACHE_PREFIX ==
    <<97, 105, 95, 114, 101, 115, 112, 111, 110, 115, 101, 95, 99, 97, 99,
      104, 101, 95>>

\* generateCacheKey(request)
generateCacheKey(request) == CACHE_PREFIX \o simpleHash(KeyString(request))

(***************************************************************************)
(* ResponseCache: getCached, setCached, periodicCleanup, clearAll.         *)
(* A request is what generateText hands to the cache: the prompt, the      *)
(* provider, the model, the processed image and the trimmed history.  An   *)
(* entry is the stored CacheEntry: response, timestamp, provider, model    *)
(* and ttl.  Every call is one step: the cache is only used by             *)
(* generateText, whose calls are awaited one after another.                *)
(***************************************************************************)
\* for how many milliseconds the clock is followed, at the start and after a
\* day
MaxSlack == 2

\* DEFAULT_TTL = 24 * 60 * 60 * 1000
DEFAULT_TTL == 24 * 60 * 60 * 1000

MAX_CACHE_SIZE == 100

CLEANUP_THRESHOLD == 120

\* const cacheRequest = { prompt, provider, model, imageHash, historyHash }
CacheRequestOf(r) ==
    [prompt      |-> r.prompt,
     provider    |-> r.provider,
     model       |-> r.model,
     imageHash   |-> generateImageHash(r.image),
     historyHash |-> generateHistoryHash(r.history)]

Turn(role, text) == [role |-> role, text |-> text]

Request(provider, model, history) ==
    [prompt |-> <<104, 105>>, provider |-> provider, model |-> model,
     image |-> NoImage, history |-> history]

\* the requests made of the cache: the prompt 'hi' without an image,
\*   openai 'Aa' after [user 'Aa'],   openai 'BB' after [user 'Aa'],
\*   openai 'Aa' after [user 'BB'],   gemini 'ab9chym4' after [user 'Aa'],
\* whose cache keys are all 'ai_response_cache_t6nz8r', and
\*   openai 'Aa' without history
CacheRequests ==
    { Request("openai", <<65, 97>>, <<Turn("user", <<65, 97>>)>>),
      Request("openai", <<66, 66>>, <<Turn("user", <<65, 97>>)>>),
      Request("openai", <<65, 97>>, <<Turn("user", <<66, 66>>)>>),
      Request("gemini", <<97, 98, 57, 99, 104, 121, 109, 52>>, <<Turn("user", <<65, 97>>)>>),
      Request("openai", <<65, 97>>, <<>>) }

\* the responses stored: 'R1' and 'R2'
Responses == { <<82, 49>>, <<82, 50>> }

\* customTtl: 0 stands for a call without the argument
CustomTtls == {0, 1}

\* a prompt of 1001 characters: 1000 times 'a', then the given one
LongPrompt(char) == [k \in 1..1001 |-> IF k <= 1000 THEN 97 ELSE char]

\* requests that differ in the prompt only: the prompts 'a'...'ab' and
\* 'a'...'ac' of 1001 characters, and the prompt 'hi'
PromptRequests ==
    { [Request("openai", <<65, 97>>, <<>>) EXCEPT !.prompt = LongPrompt(98)],
      [Request("openai", <<65, 97>>, <<>>) EXCEPT !.prompt = LongPrompt(99)],
      Request("openai", <<65, 97>>, <<>>) }

\* const cacheKey = this.generateCacheKey(request), for each request
CacheKeys ==
    [r \in CacheRequests \cup PromptRequests |->
        generateCacheKey(CacheRequestOf(r))]

ExpiredAtTtl(entry, t) == t - entry.timestamp >= entry.ttl

\* now - entry.timestamp > entry.ttl
Expired(entry, t) == t - entry.timestamp > entry.ttl

MismatchProviderOnly(entry, request) == entry.provider # request.provider

\* entry.provider !== request.provider || entry.model !== request.model
Mismatch(entry, request) ==
    \/ entry.provider # request.provider
    \/ entry.model # request.model

\* AsyncStorage.multiRemove(keys)
Remove(c, keys) == [k \in DOMAIN c \ keys |-> c[k]]

\* AsyncStorage.setItem(key, JSON.stringify(entry))
Put(c, key, entry) ==
    [k \in DOMAIN c \cup {key} |-> IF k = key THEN entry ELSE c[k]]

\* what getCached returns and leaves in the storage
getCached(c, request, key, t) ==
    IF key \notin DOMAIN c
    THEN [hit |-> FALSE, text |-> <<>>, cache |-> c]
    ELSE IF Expired(c[key], t)
    THEN [hit |-> FALSE, text |-> <<>>, cache |-> Remove(c, {key})]
    ELSE IF Mismatch(c[key], request)
    THEN [hit |-> FALSE, text |-> <<>>, cache |-> Remove(c, {key})]
    ELSE [hit |-> TRUE, text |-> c[key].response, cache |-> c]

\* const ttl = customTtl || this.DEFAULT_TTL
TtlOf(customTtl) == IF customTtl = 0 THEN DEFAULT_TTL ELSE customTtl

\* the entry setCached writes
NewEntry(request, response, customTtl, t) ==
    [response  |-> response,
     timestamp |-> t,
     provider  |-> request.provider,
     model     |-> request.model,
     ttl       |-> TtlOf(customTtl)]

\* the further entries are expired when the default ttl since time 0 is over
OthersExpired(t) == t - 0 > DEFAULT_TTL

\* validEntries.sort((a, b) => b.timestamp - a.timestamp): the youngest first
IsYoungest(keys, m, c, o) ==
    /\ \A k \in keys : \A j \in DOMAIN c \ keys :
           c[k].timestamp >= c[j].timestamp
    /\ m > 0 => \A j \in DOMAIN c \ keys : 0 >= c[j].timestamp
    /\ m < o => \A k \in keys : c[k].timestamp >= 0

\* validEntries.sort((a, b) => a.timestamp - b.timestamp).slice(0, length -
\* MAX_CACHE_SIZE): the keys and the m of the o further entries (written at
\* time 0) that go are such that no entry that goes is younger than one
\* that stays
IsOldest(keys, m, c, o) ==
    /\ \A k \in keys : \A j \in DOMAIN c \ keys :
           c[k].timestamp <= c[j].timestamp
    /\ m > 0 => \A j \in DOMAIN c \ keys : 0 <= c[j].timestamp
    /\ m < o => \A k \in keys : c[k].timestamp <= 0

\* toRemove: the sets of keys and the numbers of further entries that the
\* slice may hold when n entries are over the limit (entries of the same
\* timestamp are sorted in the order of getAllKeys)
ToRemove(c, o, n) ==
    {e \in (SUBSET DOMAIN c) \X (0..o) :
        /\ Cardinality(e[1]) + e[2] = n
        /\ IsOldest(e[1], e[2], c, o)}

\* periodicCleanup: c and o are the storage after setItem; the result is the
\* set of storages [cache, others] it may leave
periodicCleanup(c, o, t) ==
    IF Cardinality(DOMAIN c) + o < CLEANUP_THRESHOLD
    THEN {[cache |-> c, others |-> o]}
    ELSE LET valid  == Remove(c, {k \in DOMAIN c : Expired(c[k], t)})
             ovalid == IF OthersExpired(t) THEN 0 ELSE o
             n      == Cardinality(DOMAIN valid) + ovalid - MAX_CACHE_SIZE
         IN  IF n <= 0
             THEN {[cache |-> valid, others |-> ovalid]}
             ELSE {[cache |-> Remove(valid, e[1]), others |-> ovalid - e[2]] :
                      e \in ToRemove(valid, ovalid, n)}

\* setCached(request, response, customTtl)
SetCached(r, response, customTtl) ==
    LET key   == CacheKeys[r]
        entry == NewEntry(r, response, customTtl, now)
    IN  /\ \E left \in periodicCleanup(Put(cache, key, entry), others, now) :
               /\ cache' = left.cache
               /\ others' = left.others
        /\ writer' = [k \in DOMAIN cache' |->
                          IF k = key THEN r ELSE writer[k]]
        /\ last' = [op |-> "set", request |-> r, hit |-> FALSE,
                    text |-> response, at |-> now,
                    ttl |-> TtlOf(customTtl), writer |-> <<>>,
                    follows |-> FALSE]
        /\ UNCHANGED now
        /\ UNCHANGED <<appvars, tok, call>>

\* getCached(request)
GetCached(r) ==
    LET key == CacheKeys[r]
        res == getCached(cache, r, key, now)
    IN  /\ cache' = res.cache
        /\ writer' = [k \in DOMAIN cache' |-> writer[k]]
        /\ last' = [op |-> "get", request |-> r, hit |-> res.hit,
                    text |-> res.text, at |-> 0, ttl |-> 0,
                    writer |-> IF key \in DOMAIN cache
                               THEN <<writer[key]>> ELSE <<>>,
                    follows |-> last.op = "set" /\ last.request = r]
        /\ UNCHANGED <<now, others>>
        /\ UNCHANGED <<appvars, tok, call>>

\* clearAll()
ClearAll ==
    /\ cache # EmptyMap \/ others > 0
    /\ cache' = EmptyMap
    /\ others' = 0
    /\ writer' = EmptyMap
    /\ last' = [NoCall EXCEPT !.op = "clear"]
    /\ UNCHANGED now
    /\ UNCHANGED <<appvars, tok, call>>

\* time passes: a millisecond or a day; the clock is followed for the first
\* MaxSlack milliseconds and for MaxSlack milliseconds after the first day
Tick(d) ==
    /\ now + d <= DEFAULT_TTL + MaxSlack
    /\ (now + d) % DEFAULT_TTL <= MaxSlack
    /\ now' = now + d
    /\ UNCHANGED <<cache, others, writer, last>>
    /\ UNCHANGED <<appvars, tok, call>>

\* an earlier request of the cache, none of CacheRequests: gemini 'old'
OldRequest == Request("gemini", <<111, 108, 100>>, <<>>)

\* the entry of the earlier request, written before any other entry
OldCache ==
    [k \in {generateCacheKey(CacheRequestOf(OldRequest))} |->
        [NewEntry(OldRequest, <<82, 48>>, 0, 0) EXCEPT !.timestamp = 0 - 1]]

\* the storage is empty, or it is two entries short of the cleanup threshold:
\* the entry of the earlier request and, younger than it, the further entries
CacheInit ==
    /\ queue = <<>>
    /\ obj = [i \in ItemIds |-> NewQueuedMessage(i, "c1")]
    /\ nextId = 1
    /\ storedQueue = <<>>
    /\ params = {}
    /\ pc = "top"
    /\ pendingMessages = <<>>
    /\ idx = 0
    /\ hasParams = FALSE
    /\ drainConv = <<>>
    /\ task = [op |-> "none", pc |-> "idle", id |-> 0, arr |-> <<>>]
    /\ convs = [c \in {"c1"} |-> [messages |-> <<>>]]
    /\ attempts = [i \in ItemIds |-> 0]
    /\ regen = [kind |-> "none", conv |-> "c1", user |-> 0, ai |-> 0,
                corr |-> 0, snap |-> <<>>, clean |-> TRUE]
    /\ lastOp = "none"
    /\ edits = [c \in {"c1"} |-> <<>>]
    /\ StoreUnused
    /\ now = 1
    /\ \/ cache = EmptyMap /\ others = 0
       \/ cache = OldCache /\ others = CLEANUP_THRESHOLD - 2
    /\ writer = [k \in DOMAIN cache |-> OldRequest]
    /\ last = NoCall
    /\ tok = NoTokens
    /\ call = NotCalled

CacheNext ==
    \/ \E r \in CacheRequests, response \in Responses, t \in CustomTtls :
           SetCached(r, response, t)
    \/ \E r \in CacheRequests : GetCached(r)
    \/ ClearAll
    \/ \E d \in {1, DEFAULT_TTL} : Tick(d)

CacheSpec == CacheInit /\ [][CacheNext]_vars

\* the cache used with requests that differ in their prompts, from an empty
\* storage
PromptInit == CacheInit /\ cache = EmptyMap

PromptNext ==
    \/ \E r \in PromptRequests, response \in Responses, t \in CustomTtls :
           SetCached(r, response, t)
    \/ \E r \in PromptRequests : GetCached(r)
    \/ ClearAll
    \/ \E d \in {1, DEFAULT_TTL} : Tick(d)

PromptSpec == PromptInit /\ [][PromptNext]_vars

(***************************************************************************)
(* Token estimation (TokenEstimator) and context trimming                  *)
(* (trimContextByTokens).  A text is a sequence of runs, each a pattern    *)
(* of code units repeated count times, so that texts of millions of        *)
(* characters can be written down.  The multipliers (1.0, 0.5, ...) and    *)
(* the characters-per-token ratios (3.5, 4.2, 4.0) are held in tenths and  *)
(* the arithmetic is exact; the doubles of the program give the same       *)
(* results on every text used below, and can end one token higher only     *)
(* where the weighted sum is a multiple of 10.                             *)
(***************************************************************************)
Providers == {"gemini", "openai", "anthropic"}

Rep(pattern, count) == [pattern |-> pattern, count |-> count]

\* a text given by its code units
Plain(str) == IF str = <<>> THEN <<>> ELSE <<Rep(str, 1)>>

RECURSIVE TextLength(_)
\* text.length
TextLength(text) ==
    IF text = <<>> THEN 0
    ELSE Len(Head(text).pattern) * Head(text).count + TextLength(Tail(text))

RECURSIVE CharAt(_, _)
\* text.charCodeAt(i - 1)
CharAt(text, i) ==
    LET run == Head(text)
        n   == Len(run.pattern) * run.count
    IN  IF i <= n THEN run.pattern[((i - 1) % Len(run.pattern)) + 1]
        ELSE CharAt(Tail(text), i - n)

\* \w: [A-Za-z0-9_]
IsWordChar(c) == c \in (48..57) \cup (65..90) \cup (97..122) \cup {95}

\* \s
IsSpace(c) ==
    c \in (9..13) \cup {32, 160, 5760, 8232, 8233, 8239, 8287, 12288, 65279}
            \cup (8192..8202)

\* \d
IsDigit(c) == c \in 48..57

\* the matches counted so far, the class of the previous character ("w" for
\* \w, "s" for \s, "p" for [^\w\s], "n" at the start) and the position in a
\* match of NUMBERS: "out" of a match, in the digits before the point
\* ("int"), or behind the point ("frac")
NoMatches ==
    [words |-> 0, punctuation |-> 0, unicode |-> 0, numbers |-> 0,
     prev |-> "n", num |-> "out"]

\* one more character c for the four patterns: WORD_BOUNDARY /\b\w+\b/g,
\* PUNCTUATION /[^\w\s]+/g, UNICODE /[^\x00-\x7F]/g, NUMBERS /\d+\.?\d*/g
MatchStep(m, c) ==
    LET class == IF IsWordChar(c) THEN "w"
                 ELSE IF IsSpace(c) THEN "s" ELSE "p"
    IN  [words       |-> m.words +
                            (IF class = "w" /\ m.prev # "w" THEN 1 ELSE 0),
         punctuation |-> m.punctuation +
                            (IF class = "p" /\ m.prev # "p" THEN 1 ELSE 0),
         unicode     |-> m.unicode + (IF c > 127 THEN 1 ELSE 0),
         numbers     |-> m.numbers +
                            (IF IsDigit(c) /\ m.num = "out" THEN 1 ELSE 0),
         prev        |-> class,
         num         |-> IF IsDigit(c)
                         THEN (IF m.num = "out" THEN "int" ELSE m.num)
                         ELSE IF c = 46 /\ m.num = "int" THEN "frac"
                         ELSE "out"]

RECURSIVE MatchLoop(_, _, _, _)
\* the characters lo..hi of text, in order (the test on half is always
\* true; it has the first half evaluated before the second is entered)
MatchLoop(m, text, lo, hi) ==
    IF lo > hi THEN m
    ELSE IF lo = hi THEN MatchStep(m, CharAt(text, lo))
    ELSE LET mid  == (lo + hi) \div 2
             half == MatchLoop(m, text, lo, mid)
         IN  IF half.words >= 0 THEN MatchLoop(half, text, mid + 1, hi)
             ELSE half

\* text.match(pattern).length for the four patterns
Matches(text) == MatchLoop(NoMatches, text, 1, TextLength(text))

\* PROVIDER_MULTIPLIERS, in tenths
PROVIDER_MULTIPLIERS ==
    [openai    |-> [word |-> 10, punctuation |-> 5, unicode |-> 20,
                    number |-> 8],
     anthropic |-> [word |-> 11, punctuation |-> 6, unicode |-> 22,
                    number |-> 9],
     gemini    |-> [word |-> 9, punctuation |-> 4, unicode |-> 18,
                    number |-> 7]]

\* Math.ceil(p / q) for p >= 0, q > 0
CeilDiv(p, q) == (p + q - 1) \div q

\* totalTokens += matches.length * multiplier, for the four patterns
Weighted(m, mult) ==
    m.words * mult.word + m.punctuation * mult.punctuation
        + m.unicode * mult.unicode + m.numbers * mult.number

\* if (text.length > 0 && totalTokens < 1) totalTokens = 1
BaseOverhead(total) == IF total < 10 THEN 10 ELSE total

\* the same without the base overhead for very short texts
TotalTokensNoOverhead(text, provider) ==
    Weighted(Matches(text), PROVIDER_MULTIPLIERS[provider])

\* totalTokens, in tenths, before the buffer is added
TotalTokens(text, provider) ==
    BaseOverhead(Weighted(Matches(text), PROVIDER_MULTIPLIERS[provider]))

\* TokenEstimator.estimateTokens: Math.ceil(totalTokens * 1.1)
TokenEstimator_estimateTokens(text, provider) ==
    IF TextLength(text) = 0 THEN 0
    ELSE CeilDiv(TotalTokens(text, provider) * 11, 100)

\* baseRatio, in tenths
BaseRatio(provider) ==
    IF provider = "gemini" THEN 35
    ELSE IF provider = "anthropic" THEN 42 ELSE 40

\* TokenEstimator.estimateTokensFast: Math.ceil(text.length / baseRatio)
estimateTokensFast(text, provider) ==
    IF TextLength(text) = 0 THEN 0
    ELSE CeilDiv(TextLength(text) * 10, BaseRatio(provider))

\* TokenEstimator.smartEstimate
smartEstimate(text, provider) ==
    IF TextLength(text) = 0 THEN 0
    ELSE IF TextLength(text) > 10000 THEN estimateTokensFast(text, provider)
    ELSE TokenEstimator_estimateTokens(text, provider)

\* imageCost
ImageCost(provider) ==
    IF provider = "gemini" THEN 258
    ELSE IF provider = "anthropic" THEN 1568 ELSE 765

RECURSIVE SumTokens(_, _)
\* the loop of estimateConversationTokens; a message is [text, image]
SumTokens(messages, provider) ==
    IF messages = <<>> THEN 0
    ELSE smartEstimate(Head(messages).text, provider)
            + (IF Head(messages).image THEN ImageCost(provider) ELSE 0)
            + SumTokens(Tail(messages), provider)

\* TokenEstimator.estimateConversationTokens: Math.ceil(length * 0.5) is
\* added for the structure
estimateConversationTokens(messages, provider) ==
    SumTokens(messages, provider) + CeilDiv(Len(messages), 2)

\* estimateTokens of the token utilities
estimateTokens(text, provider) == smartEstimate(text, provider)

TOKEN_LIMITS ==
    [gemini |-> 1000000, openai |-> 128000, anthropic |-> 200000]

\* getContextLimit: Math.floor(TOKEN_LIMITS[provider] * SAFETY_MARGIN), with
\* SAFETY_MARGIN = 0.8
getContextLimit(provider) == (TOKEN_LIMITS[provider] * 8) \div 10

\* messageTokens of a turn [role, text, image]
MessageTokens(turn, provider) ==
    IF turn.image
    THEN estimateConversationTokens(<<turn>>, provider)
    ELSE estimateTokens(turn.text, provider)

\* the same without the tokens of the image
AvailableTokensNoImage(newPrompt, provider, newImage) ==
    getContextLimit(provider) - estimateTokens(newPrompt, provider)

\* availableTokens = contextLimit - promptTokens - imageTokens
AvailableTokens(newPrompt, provider, newImage) ==
    getContextLimit(provider) - estimateTokens(newPrompt, provider)
        - (IF newImage
           THEN estimateConversationTokens(
                    <<[text |-> <<>>, image |-> TRUE]>>, provider)
           ELSE 0)

RECURSIVE TrimLoop(_, _, _, _, _, _)
\* for (let i = history.length - 1; i >= 0; i--): i counts from 1 here
TrimLoop(history, i, totalTokens, trimmedHistory, availableTokens, provider) ==
    IF i < 1 THEN trimmedHistory
    ELSE LET messageTokens == MessageTokens(history[i], provider)
         IN  IF totalTokens + messageTokens > availableTokens
             THEN trimmedHistory
             ELSE TrimLoop(history, i - 1, totalTokens + messageTokens,
                           <<history[i]>> \o trimmedHistory,
                           availableTokens, provider)

\* trimContextByTokens(history, newPrompt, provider, newImage)
trimContextByTokens(history, newPrompt, provider, newImage) ==
    LET availableTokens == AvailableTokens(newPrompt, provider, newImage)
    IN  IF availableTokens <= 0 THEN <<>>
        ELSE TrimLoop(history, Len(history), 0, <<>>, availableTokens,
                      provider)

\* estimateTokens of src/utils/tokenUtils.ts: Math.ceil(text.length / 4)
tokenUtils_estimateTokens(text) == CeilDiv(TextLength(text), 4)

RECURSIVE tokenUtils_TrimLoop(_, _, _, _, _)
tokenUtils_TrimLoop(history, i, totalTokens, trimmedHistory, availableTokens) ==
    IF i < 1 THEN trimmedHistory
    ELSE LET messageTokens == tokenUtils_estimateTokens(history[i].text)
         IN  IF totalTokens + messageTokens > availableTokens
             THEN trimmedHistory
             ELSE tokenUtils_TrimLoop(history, i - 1,
                                      totalTokens + messageTokens,
                                      <<history[i]>> \o trimmedHistory,
                                      availableTokens)

\* trimContextByTokens(history, newPrompt, provider) of
\* src/utils/tokenUtils.ts
tokenUtils_trimContextByTokens(history, newPrompt, provider) ==
    LET availableTokens ==
            getContextLimit(provider) - tokenUtils_estimateTokens(newPrompt)
    IN  IF availableTokens <= 0 THEN <<>>
        ELSE tokenUtils_TrimLoop(history, Len(history), 0, <<>>,
                                 availableTokens)

\* the longest history of a call of trimContextByTokens
MaxTurns == 2

\* 'x' repeated n times
Xs(n) == <<Rep(<<120>>, n)>>

\* 'a ' 4999 times and two blanks: 10000 characters, 4999 words
TenThousand == <<Rep(<<97, 32>>, 4999), Rep(<<32, 32>>, 1)>>

\* the texts estimated: '', ' ', 'hi', 'a b c', 'abcdef', e acute,
\* '3.14 is pi!', the 10000 characters above, the same followed by 'a', and
\* 10001 and 204800 times 'x'
EstimateTexts ==
    { <<>>, Plain(<<32>>), Plain(<<104, 105>>), Plain(<<97, 32, 98, 32, 99>>),
      Plain(<<97, 98, 99, 100, 101, 102>>), Plain(<<233>>),
      Plain(<<51, 46, 49, 52, 32, 105, 115, 32, 112, 105, 33>>),
      TenThousand, TenThousand \o Plain(<<97>>), Xs(10001), Xs(204800) }

\* the prompts of the calls of trimContextByTokens: '', 'hi', and 204800,
\* 409000 and 2800000 times 'x'
TrimPrompts ==
    { <<>>, Plain(<<104, 105>>), Xs(204800), Xs(409000), Xs(2800000) }

\* the texts of the turns: 'abcdef', and 204800 and 1400000 times 'x'
TurnTexts == { Plain(<<97, 98, 99, 100, 101, 102>>), Xs(204800), Xs(1400000) }

ChatTurn(text, image) == [role |-> "user", text |-> text, image |-> image]

\* the histories of at most n turns made of the given turns
Histories(turns, n) == UNION {[1..k -> turns] : k \in 0..n}

\* the calls of estimateTokens, two texts each, and of the two
\* trimContextByTokens; src/utils/tokenUtils.ts knows no images
TokenCalls ==
    {[NoTokens EXCEPT !.op = "estimate", !.provider = P, !.texts = <<t1, t2>>] :
        P \in Providers, t1 \in EstimateTexts, t2 \in EstimateTexts}
    \cup
    {[NoTokens EXCEPT !.op = "trim", !.provider = P, !.prompt = p,
                      !.history = H, !.image = i] :
        P \in Providers, p \in TrimPrompts, i \in BOOLEAN,
        H \in Histories({ChatTurn(t, j) : t \in TurnTexts, j \in BOOLEAN},
                        MaxTurns)}
    \cup
    {[NoTokens EXCEPT !.op = "trimChars", !.provider = P, !.prompt = p,
                      !.history = H] :
        P \in Providers, p \in TrimPrompts,
        H \in Histories({ChatTurn(t, FALSE) : t \in TurnTexts}, MaxTurns)}

\* estimateTokens(text, provider) for the texts of the call
EstimateTokens ==
    /\ tok.op = "estimate"
    /\ ~tok.done
    /\ tok' = [tok EXCEPT
                 !.done = TRUE,
                 !.estimates = [i \in DOMAIN tok.texts |->
                                   estimateTokens(tok.texts[i], tok.provider)]]
    /\ UNCHANGED <<appvars, cvars, call>>

\* trimContextByTokens(history, newPrompt, provider, newImage)
TrimContextByTokens ==
    /\ tok.op = "trim"
    /\ ~tok.done
    /\ tok' = [tok EXCEPT
                 !.done = TRUE,
                 !.trimmed = trimContextByTokens(tok.history, tok.prompt,
                                                 tok.provider, tok.image)]
    /\ UNCHANGED <<appvars, cvars, call>>

\* trimContextByTokens(history, newPrompt, provider) of
\* src/utils/tokenUtils.ts
TokenUtilsTrimContextByTokens ==
    /\ tok.op = "trimChars"
    /\ ~tok.done
    /\ tok' = [tok EXCEPT
                 !.done = TRUE,
                 !.trimmed = tokenUtils_trimContextByTokens(
                                 tok.history, tok.prompt, tok.provider)]
    /\ UNCHANGED <<appvars, cvars, call>>

TokenInit ==
    /\ queue = <<>>
    /\ obj = [i \in ItemIds |-> NewQueuedMessage(i, "c1")]
    /\ nextId = 1
    /\ storedQueue = <<>>
    /\ params = {}
    /\ pc = "top"
    /\ pendingMessages = <<>>
    /\ idx = 0
    /\ hasParams = FALSE
    /\ drainConv = <<>>
    /\ task = [op |-> "none", pc |-> "idle", id |-> 0, arr |-> <<>>]
    /\ convs = [c \in {"c1"} |-> [messages |-> <<>>]]
    /\ attempts = [i \in ItemIds |-> 0]
    /\ regen = [kind |-> "none", conv |-> "c1", user |-> 0, ai |-> 0,
                corr |-> 0, snap |-> <<>>, clean |-> TRUE]
    /\ lastOp = "none"
    /\ edits = [c \in {"c1"} |-> <<>>]
    /\ StoreUnused
    /\ now = 1
    /\ cache = EmptyMap
    /\ others = 0
    /\ writer = EmptyMap
    /\ last = NoCall
    /\ tok \in TokenCalls
    /\ call = NotCalled

TokenNext ==
    \/ EstimateTokens
    \/ TrimContextByTokens
    \/ TokenUtilsTrimContextByTokens

TokenSpec == TokenInit /\ [][TokenNext]_vars

(***************************************************************************)
(* Properties of the token utilities.                                      *)
(***************************************************************************)
\* trimmed is history without some of its first turns
IsSuffix(trimmed, history) ==
    \E k \in 0..Len(history) :
        trimmed = SubSeq(history, Len(history) - k + 1, Len(history))

RECURSIVE SumOf(_)
SumOf(numbers) ==
    IF numbers = <<>> THEN 0 ELSE Head(numbers) + SumOf(Tail(numbers))

\* C15: trimContextByTokens returns a suffix of the history, in order; when
\* the estimate of the prompt plus the image surcharge is below
\* floor(0.8 x context size), the estimates of the turns kept plus those are
\* at most that budget; otherwise the result is empty.  The same for the
\* trimContextByTokens of src/utils/tokenUtils.ts, which has no image and
\* estimates a text at a quarter of its length.
C15_TrimWithinBudget ==
    (tok.done /\ tok.op \in {"trim", "trimChars"}) =>
        LET P       == tok.provider
            budget  == (8 * TOKEN_LIMITS[P]) \div 10
            reserve == IF tok.op = "trim"
                       THEN smartEstimate(tok.prompt, P)
                               + (IF tok.image THEN ImageCost(P) + 1 ELSE 0)
                       ELSE CeilDiv(TextLength(tok.prompt), 4)
            kept    == [i \in DOMAIN tok.trimmed |->
                           IF tok.op = "trim"
                           THEN MessageTokens(tok.trimmed[i], P)
                           ELSE CeilDiv(TextLength(tok.trimmed[i].text), 4)]
        IN  /\ IsSuffix(tok.trimmed, tok.history)
            /\ reserve < budget => SumOf(kept) + reserve <= budget
            /\ reserve >= budget => tok.trimmed = <<>>

\* a call with an image that kept the last of two turns, the two not fitting
\* into the budget together once the image is counted
C15_Witness ==
    /\ tok.done
    /\ tok.op = "trim"
    /\ tok.image
    /\ Len(tok.history) = 2
    /\ Len(tok.trimmed) = 1
    /\ MessageTokens(tok.history[1], tok.provider)
          + MessageTokens(tok.history[2], tok.provider)
          + smartEstimate(tok.prompt, tok.provider)
              <= getContextLimit(tok.provider)

\* C19: the estimate is a natural number, 0 for the empty text and at least
\* 1 for any other, by class matching (up to 10000 characters) and by the
\* characters-per-token ratio (beyond).
C19_EstimateAtLeastOne ==
    (tok.done /\ tok.op = "estimate") =>
        \A i \in DOMAIN tok.texts :
            /\ tok.estimates[i] \in Nat
            /\ TextLength(tok.texts[i]) = 0 => tok.estimates[i] = 0
            /\ TextLength(tok.texts[i]) > 0 => tok.estimates[i] >= 1

\* the estimates of a text of more than 10000 characters and of a single
\* blank, which matches no pattern
C19_Witness ==
    /\ tok.done
    /\ tok.op = "estimate"
    /\ TextLength(tok.texts[1]) > 10000
    /\ tok.texts[2] = Plain(<<32>>)
    /\ tok.estimates[1] >= 1
    /\ tok.estimates[2] >= 1

\* C20: for a fixed provider, the longer of two texts never has the smaller
\* estimate.
C20_MonotonicInLength ==
    (tok.done /\ tok.op = "estimate") =>
        (TextLength(tok.texts[2]) > TextLength(tok.texts[1])
            => tok.estimates[2] >= tok.estimates[1])

(***************************************************************************)
(* generateText and streamText.  A step runs up to the next await: the     *)
(* entry up to the cache lookup, the lookup, the backend call, the store,  *)
(* and each onChunk of streamText, which waits 50 ms after it.  The        *)
(* callbacks return normally, as those of the callers do (onChunk and      *)
(* onError update React state, onComplete is async).  One call runs at a   *)
(* time.                                                                   *)
(***************************************************************************)
modelOptions ==
    [gemini |-> <<
         \* 'gemini-1.5-flash-latest'
         [value |-> <<103,101,109,105,110,105,45,49,46,53,45,102,108,97,115,104,45,108,97,116,101,115,116>>,
          supportsImages |-> TRUE],
         \* 'gemini-1.5-pro-latest'
         [value |-> <<103,101,109,105,110,105,45,49,46,53,45,112,114,111,45,108,97,116,101,115,116>>,
          supportsImages |-> TRUE],
         \* 'gemini-pro'
         [value |-> <<103,101,109,105,110,105,45,112,114,111>>,
          supportsImages |-> FALSE] >>,
     openai |-> <<
         \* 'gpt-4o'
         [value |-> <<103,112,116,45,52,111>>,
          supportsImages |-> TRUE],
         \* 'gpt-4o-mini'
         [value |-> <<103,112,116,45,52,111,45,109,105,110,105>>,
          supportsImages |-> TRUE],
         \* 'gpt-4-turbo'
         [value |-> <<103,112,116,45,52,45,116,117,114,98,111>>,
          supportsImages |-> TRUE],
         \* 'gpt-3.5-turbo'
         [value |-> <<103,112,116,45,51,46,53,45,116,117,114,98,111>>,
          supportsImages |-> FALSE] >>,
     anthropic |-> <<
         \* 'claude-3-5-sonnet-20241022'
         [value |-> <<99,108,97,117,100,101,45,51,45,53,45,115,111,110,110,101,116,45,50,48,50,52,49,48,50,50>>,
          supportsImages |-> TRUE],
         \* 'claude-3-opus-20240229'
         [value |-> <<99,108,97,117,100,101,45,51,45,111,112,117,115,45,50,48,50,52,48,50,50,57>>,
          supportsImages |-> TRUE],
         \* 'claude-3-5-haiku-20241022'
         [value |-> <<99,108,97,117,100,101,45,51,45,53,45,104,97,105,107,117,45,50,48,50,52,49,48,50,50>>,
          supportsImages |-> TRUE],
         \* 'claude-3-sonnet-20240229'
         [value |-> <<99,108,97,117,100,101,45,51,45,115,111,110,110,101,116,45,50,48,50,52,48,50,50,57>>,
          supportsImages |-> TRUE],
         \* 'claude-3-haiku-20240307'
         [value |-> <<99,108,97,117,100,101,45,51,45,104,97,105,107,117,45,50,48,50,52,48,51,48,55>>,
          supportsImages |-> TRUE] >>]

\* the same with an unknown model taken for vision-capable
modelSupportsImagesByDefault(provider, model) ==
    \A k \in DOMAIN modelOptions[provider] :
        modelOptions[provider][k].value = model
            => modelOptions[provider][k].supportsImages

\* modelSupportsImages: find(m => m.value === model)?.supportsImages ?? false
modelSupportsImages(provider, model) ==
    \E k \in DOMAIN modelOptions[provider] :
        /\ modelOptions[provider][k].value = model
        /\ \A j \in 1..(k - 1) : modelOptions[provider][j].value # model
        /\ modelOptions[provider][k].supportsImages

\* stripImagesFromHistory
stripImagesFromHistory(history) ==
    [k \in DOMAIN history |-> [history[k] EXCEPT !.image = NoImage]]

\* processedHistory and processedImage
Processed(r) ==
    IF modelSupportsImages(r.provider, r.model) THEN r
    ELSE [r EXCEPT !.history = stripImagesFromHistory(r.history),
                   !.image = NoImage]

\* the history as the token utilities see it
ChatTurns(history) ==
    [k \in DOMAIN history |->
        ChatTurn(Plain(history[k].text), history[k].image.present)]

\* the last kept turns of a history, which are what trimContextByTokens keeps
LastTurns(history, kept) ==
    SubSeq(history, Len(history) - kept + 1, Len(history))

\* trimmedHistory = trimContextByTokens(processedHistory, prompt, provider,
\* processedImage)
TrimmedHistory(r) ==
    LastTurns(r.history,
              Len(trimContextByTokens(ChatTurns(r.history), Plain(r.prompt),
                                      r.provider, r.image.present)))

\* what the cache request is made of: prompt, provider, model, processedImage
\* and trimmedHistory
Trimmed(r) == [r EXCEPT !.history = TrimmedHistory(r)]

CacheInput(args) == Trimmed(Processed(args))

\* an image, 'i1', with uri 'u1'
AnImage == [uri |-> <<117, 49>>, base64 |-> <<105, 49>>, present |-> TRUE]

ImageTurn(role, text, image) == [role |-> role, text |-> text, image |-> image]

\* the calls made: prompt 'hi',
\*   openai 'gpt-4o' with an image, after a turn 'Aa' with an image;
\*   openai 'gpt-3.5-turbo' without image, after the same turn;
\*   openai 'gpt-3.5-turbo' with an image;
\*   gemini 'Aa', a model that is not listed, with an image
AdapterRequests ==
    { [prompt |-> <<104, 105>>, provider |-> "openai",
       model |-> <<103, 112, 116, 45, 52, 111>>, image |-> AnImage,
       history |-> <<ImageTurn("user", <<65, 97>>, AnImage)>>],
      [prompt |-> <<104, 105>>, provider |-> "openai",
       model |-> <<103, 112, 116, 45, 51,
                  46, 53, 45, 116, 117, 114, 98, 111>>,
       image |-> NoImage,
       history |-> <<ImageTurn("user", <<65, 97>>, AnImage)>>],
      [prompt |-> <<104, 105>>, provider |-> "openai",
       model |-> <<103, 112, 116, 45, 51,
                  46, 53, 45, 116, 117, 114, 98, 111>>,
       image |-> AnImage, history |-> <<>>],
      [prompt |-> <<104, 105>>, provider |-> "gemini",
       model |-> <<65, 97>>, image |-> AnImage, history |-> <<>>] }

\* what the backend answers: '', 'R1' or 'a  b'
BackendTexts == { <<>>, <<82, 49>>, <<97, 32, 32, 98>> }

\* cacheRequest and this.generateCacheKey(cacheRequest) for the arguments
\* generateText is called with, directly and through streamText
Keyed(r) == [request |-> r, key |-> generateCacheKey(CacheRequestOf(r))]

AdapterKeys ==
    [a \in AdapterRequests \cup {Processed(r) : r \in AdapterRequests} |->
        Keyed(CacheInput(a))]

RECURSIVE Split(_, _)
\* text.split(' '): the pieces between the separators, empty ones included
Split(str, sep) ==
    IF \A k \in DOMAIN str : str[k] # sep THEN <<str>>
    ELSE LET first == CHOOSE k \in DOMAIN str :
                          str[k] = sep /\ \A j \in 1..(k - 1) : str[j] # sep
         IN  <<SubSeq(str, 1, first - 1)>>
                 \o Split(SubSeq(str, first + 1, Len(str)), sep)

\* the same without the separator put back
ChunkBare(words, i) == words[i]

\* words[i] + (i < words.length - 1 ? ' ' : ''), i counted from 1
Chunk(words, i) == words[i] \o (IF i < Len(words) THEN <<32>> ELSE <<>>)

RECURSIVE Concat(_)
\* the chunks in the order of the calls
Concat(strs) == IF strs = <<>> THEN <<>> ELSE Head(strs) \o Concat(Tail(strs))

\* never take the cached response
UseCachedNever(res) == FALSE

\* if (cachedResponse)
UseCached(res) == res.hit /\ res.text # <<>>

\* return text: generateText is done; streamText splits the text
Return(c, text) ==
    IF c.mode = "generate"
    THEN [c EXCEPT !.pc = "returned", !.outcome = "text", !.text = text]
    ELSE [c EXCEPT !.pc = "chunks", !.outcome = "text", !.text = text,
                   !.words = Split(text, 32)]

\* throw: generateText is done; the catch of streamText calls onError
Throw(c) ==
    IF c.mode = "generate"
    THEN [c EXCEPT !.pc = "thrown", !.outcome = "failed"]
    ELSE [c EXCEPT !.pc = "done", !.outcome = "failed",
                   !.errors = @ + 1]

\* generateText up to the lookup: the image check
Enter(c, args) ==
    IF args.image.present /\ ~modelSupportsImages(args.provider, args.model)
    THEN Throw([c EXCEPT !.args = args])
    ELSE [c EXCEPT !.args = args, !.pc = "lookup"]

Finished == {"idle", "returned", "thrown", "done"}

\* generateText(params)
GenerateText(r) ==
    /\ call.pc \in Finished
    /\ call' = Enter([NotCalled EXCEPT !.mode = "generate", !.request = r], r)
    /\ UNCHANGED <<appvars, cvars, tok>>

\* streamText(params): the image check, then generateText with
\* processedHistory and processedImage
StreamText(r) ==
    /\ call.pc \in Finished
    /\ call' =
          LET c == [NotCalled EXCEPT !.mode = "stream", !.request = r]
          IN  IF r.image.present
                    /\ ~modelSupportsImages(r.provider, r.model)
              THEN [c EXCEPT !.pc = "done", !.errors = @ + 1]
              ELSE Enter(c, Processed(r))
    /\ UNCHANGED <<appvars, cvars, tok>>

\* if (cachedResponse) return cachedResponse; else the backend is called
AfterLookup(c, res) ==
    IF UseCached(res) THEN Return(c, res.text) ELSE [c EXCEPT !.pc = "backend"]

\* the lookup has answered res
Looked(res) ==
    /\ cache' = res.cache
    /\ call' = AfterLookup([call EXCEPT !.lookups = @ + 1, !.hit = res.hit,
                                        !.hitText = res.text], res)

\* const cachedResponse = await ResponseCache.getCached(cacheRequest)
Lookup ==
    /\ call.pc = "lookup"
    /\ Looked(getCached(cache, AdapterKeys[call.args].request,
                        AdapterKeys[call.args].key, now))
    /\ UNCHANGED <<appvars, now, others, writer, last, tok>>

\* the backend answers with text
BackendAnswers(text) ==
    /\ call.pc = "backend"
    /\ call' = LET c == [call EXCEPT !.backendCalls = @ + 1]
               IN  IF text # <<>> THEN [c EXCEPT !.pc = "store", !.text = text]
                   ELSE Return(c, text)
    /\ UNCHANGED <<appvars, cvars, tok>>

\* the backend call fails
BackendFails ==
    /\ call.pc = "backend"
    /\ call' = Throw([call EXCEPT !.backendCalls = @ + 1])
    /\ UNCHANGED <<appvars, cvars, tok>>

\* await ResponseCache.setCached(cacheRequest, responseText); return
Store ==
    /\ call.pc = "store"
    /\ \E left \in periodicCleanup(
                        Put(cache, AdapterKeys[call.args].key,
                            NewEntry(AdapterKeys[call.args].request,
                                     call.text, 0, now)),
                        others, now) :
           /\ cache' = left.cache
           /\ others' = left.others
    /\ call' = Return(call, call.text)
    /\ UNCHANGED <<appvars, now, writer, last, tok>>

\* onChunk(words[i] + ...)
OnChunk ==
    /\ call.pc = "chunks"
    /\ Len(call.chunks) < Len(call.words)
    /\ call' = [call EXCEPT
                  !.chunks = Append(@, Chunk(call.words, Len(@) + 1))]
    /\ UNCHANGED <<appvars, cvars, tok>>

\* onComplete()
OnComplete ==
    /\ call.pc = "chunks"
    /\ Len(call.chunks) = Len(call.words)
    /\ call' = [call EXCEPT !.pc = "done", !.completes = @ + 1]
    /\ UNCHANGED <<appvars, cvars, tok>>

\* time passes between the steps of a call and between calls
AdapterTick(d) ==
    /\ now + d <= DEFAULT_TTL + MaxSlack
    /\ (now + d) % DEFAULT_TTL <= MaxSlack
    /\ now' = now + d
    /\ UNCHANGED <<appvars, cache, others, writer, last, tok, call>>

AdapterInit ==
    /\ queue = <<>>
    /\ obj = [i \in ItemIds |-> NewQueuedMessage(i, "c1")]
    /\ nextId = 1
    /\ storedQueue = <<>>
    /\ params = {}
    /\ pc = "top"
    /\ pendingMessages = <<>>
    /\ idx = 0
    /\ hasParams = FALSE
    /\ drainConv = <<>>
    /\ task = [op |-> "none", pc |-> "idle", id |-> 0, arr |-> <<>>]
    /\ convs = [c \in {"c1"} |-> [messages |-> <<>>]]
    /\ attempts = [i \in ItemIds |-> 0]
    /\ regen = [kind |-> "none", conv |-> "c1", user |-> 0, ai |-> 0,
                corr |-> 0, snap |-> <<>>, clean |-> TRUE]
    /\ lastOp = "none"
    /\ edits = [c \in {"c1"} |-> <<>>]
    /\ StoreUnused
    /\ CacheUnused

AdapterNext ==
    \/ \E r \in AdapterRequests : GenerateText(r)
    \/ \E r \in AdapterRequests : StreamText(r)
    \/ Lookup
    \/ \E text \in BackendTexts : BackendAnswers(text)
    \/ BackendFails
    \/ Store
    \/ OnChunk
    \/ OnComplete
    \/ \E d \in {1, DEFAULT_TTL} : AdapterTick(d)

AdapterSpec == AdapterInit /\ [][AdapterNext]_vars

(***************************************************************************)
(* Properties of generateText and streamText.                              *)
(***************************************************************************)
\* the model of the call is listed as vision-capable for its provider
VisionCapable(r) ==
    \E k \in DOMAIN modelOptions[r.provider] :
        /\ modelOptions[r.provider][k].value = r.model
        /\ modelOptions[r.provider][k].supportsImages

\* C14: generateText looks into the cache before any backend call; when the
\* lookup hits, the backend is not invoked during the call and the text
\* returned is the cached one.
C14_CacheBeforeBackend ==
    /\ call.backendCalls > 0 => (call.lookups = 1 /\ ~call.hit)
    /\ call.hit =>
          /\ call.backendCalls = 0
          /\ call.pc \notin {"lookup", "backend", "store"}
          /\ call.outcome = "text"
          /\ call.text = call.hitText

\* a generateText that returned the text found in the cache
C14_Witness ==
    /\ call.mode = "generate"
    /\ call.pc = "returned"
    /\ call.hit
    /\ call.lookups = 1
    /\ call.backendCalls = 0
    /\ call.text = <<82, 49>>

\* C16: with an image and a model that is not vision-capable, generateText
\* fails before any cache lookup or backend call, and streamText calls
\* onError once and neither onChunk nor onComplete.
C16_RejectsImage ==
    (call.mode # "idle" /\ call.request.image.present
        /\ ~VisionCapable(call.request)) =>
            /\ call.lookups = 0
            /\ call.backendCalls = 0
            /\ call.mode = "generate" =>
                  (call.pc = "thrown" /\ call.outcome = "failed")
            /\ call.mode = "stream" =>
                  /\ call.pc = "done"
                  /\ call.errors = 1
                  /\ call.chunks = <<>>
                  /\ call.completes = 0

\* a streamText with an image for a model that is not listed at all, which
\* has called onError
C16_Witness ==
    /\ call.mode = "stream"
    /\ call.request.image.present
    /\ \A k \in DOMAIN modelOptions[call.request.provider] :
           modelOptions[call.request.provider][k].value # call.request.model
    /\ call.pc = "done"
    /\ call.errors = 1

\* C17: streamText makes exactly one terminal callback: after generateText
\* returned T, the chunks delivered so far are a prefix of T, onComplete
\* comes once, when the chunks make up T, and onError never; after
\* generateText failed, onError comes once and onComplete never.
C17_OneTerminalCallback ==
    call.mode = "stream" =>
        /\ call.completes + call.errors <= 1
        /\ call.pc = "done" => call.completes + call.errors = 1
        /\ call.pc # "done" => call.completes + call.errors = 0
        /\ call.outcome = "text" =>
              /\ call.errors = 0
              /\ Len(Concat(call.chunks)) <= Len(call.text)
              /\ Concat(call.chunks)
                    = SubSeq(call.text, 1, Len(Concat(call.chunks)))
              /\ call.completes = 1 => Concat(call.chunks) = call.text
        /\ call.outcome = "failed" =>
              /\ call.completes = 0
              /\ call.errors = 1
              /\ call.chunks = <<>>
        /\ call.completes = 1 => call.outcome = "text"

\* a streamText that delivered 'a  b' from the backend in three chunks, the
\* second a single blank, and then called onComplete
C17_Witness ==
    /\ call.mode = "stream"
    /\ call.pc = "done"
    /\ call.completes = 1
    /\ call.backendCalls = 1
    /\ call.text = <<97, 32, 32, 98>>
    /\ call.chunks = << <<97, 32>>, <<32>>, <<98>> >>

(***************************************************************************)
(* Properties of the response cache.                                       *)
(***************************************************************************)
\* C11: setCached(req, R) followed immediately by getCached(req), no later
\* than ttl milliseconds after the entry was written, returns R.
C11_RoundTrip ==
    [][\A r \in CacheRequests :
          (/\ GetCached(r)
           /\ last.op = "set"
           /\ last.request = r
           /\ now - last.at <= last.ttl)
              => (last'.hit /\ last'.text = last.text)]_vars

\* a getCached that follows the setCached of its request a day later, at the
\* very end of the default ttl, and hits; the setCached had cleaned the
\* storage up to MAX_CACHE_SIZE entries
C11_Witness ==
    /\ last.op = "get"
    /\ last.follows
    /\ last.hit
    /\ now = 1 + DEFAULT_TTL
    /\ others + 1 = MAX_CACHE_SIZE

\* C12: getCached returns a stored response only if now - timestamp <= ttl
\* and the stored provider and model equal the request's; an entry found
\* under the key that is expired or disagrees is deleted and the call
\* misses, and so does the next getCached of the same request.
C12_ValidOrPurged ==
    [][\A r \in CacheRequests :
          GetCached(r) =>
              LET key == CacheKeys[r]
              IN  /\ last'.hit =>
                         /\ key \in DOMAIN cache
                         /\ now - cache[key].timestamp <= cache[key].ttl
                         /\ cache[key].provider = r.provider
                         /\ cache[key].model = r.model
                         /\ last'.text = cache[key].response
                  /\ (/\ key \in DOMAIN cache
                      /\ \/ now - cache[key].timestamp > cache[key].ttl
                         \/ cache[key].provider # r.provider
                         \/ cache[key].model # r.model)
                         => (~last'.hit /\ key \notin DOMAIN cache')
                  /\ (last.op = "get" /\ last.request = r /\ ~last.hit)
                         => ~last'.hit]_vars

\* a getCached that found an unexpired entry written for another provider
\* under its key, and missed
C12_Witness ==
    /\ last.op = "get"
    /\ ~last.hit
    /\ last.writer # <<>>
    /\ last.writer[1].provider # last.request.provider
    /\ CacheKeys[last.request] \notin DOMAIN cache
    /\ now <= MaxSlack

\* C13: getCached never returns the response stored for a request with the
\* same prompt, provider, model and image whose last 5 history turns differ.
C13_NoFalseHit ==
    (last.op = "get" /\ last.hit) =>
        LET w == last.writer[1]
            r == last.request
        IN  (/\ w.prompt = r.prompt
             /\ w.provider = r.provider
             /\ w.model = r.model
             /\ w.image = r.image)
                => LastFive(w.history) = LastFive(r.history)

\* the entries in the storage
CacheCount(c, o) == Cardinality(DOMAIN c) + o

\* the entries of c, o further entries among them, that are neither expired
\* at time t nor in the storage [d, p]: the entries evicted for their age
EvictedOlder(c, o, d, p, t) ==
    /\ \A k \in DOMAIN c \ DOMAIN d : \A j \in DOMAIN d :
           Expired(c[k], t) \/ c[k].timestamp <= d[j].timestamp
    /\ (p < o /\ ~OthersExpired(t)) =>
           \A j \in DOMAIN d : 0 <= d[j].timestamp
    /\ p > 0 =>
           \A k \in DOMAIN c \ DOMAIN d :
               Expired(c[k], t) \/ c[k].timestamp <= 0

\* C23: when a setCached has returned, the storage holds at most
\* CLEANUP_THRESHOLD cache entries; when the insertion brought the count to
\* the threshold, no expired entry is left and at most MAX_CACHE_SIZE
\* entries are, the entry just written is one of them, and no unexpired
\* entry that was evicted is younger than an entry that stays.
C23_BoundedCache ==
    [][\A r \in CacheRequests, response \in Responses, t \in CustomTtls :
          (last'.op = "set" /\ last'.request = r /\ SetCached(r, response, t)) =>
              /\ CacheCount(cache', others') <= CLEANUP_THRESHOLD
              /\ CacheCount(Put(cache, CacheKeys[r], NewEntry(r, response, t, now)), others) >= CLEANUP_THRESHOLD =>
                     /\ \A k \in DOMAIN cache' : ~Expired(cache'[k], now)
                     /\ others' > 0 => ~OthersExpired(now)
                     /\ CacheCount(cache', others') <= MAX_CACHE_SIZE
                     /\ CacheKeys[r] \in DOMAIN cache'
                     /\ cache'[CacheKeys[r]] = NewEntry(r, response, t, now)
                     /\ EvictedOlder(cache, others, cache', others', now)]_vars

\* a setCached has brought the storage to CLEANUP_THRESHOLD unexpired
\* entries: the oldest entry, that of the earlier request, and the 19 oldest
\* further entries were evicted, and the entry just written stays
C23_Witness ==
    /\ last.op = "set"
    /\ last.at = now
    /\ ~OthersExpired(now)
    /\ CacheCount(cache, others) = MAX_CACHE_SIZE
    /\ others = MAX_CACHE_SIZE - 1
    /\ DOMAIN cache = {CacheKeys[last.request]}
    /\ cache[CacheKeys[last.request]].timestamp = now

\* C30: getCached never returns a response that setCached stored for a
\* request with another prompt.
C30_NoHitForOtherPrompt ==
    (last.op = "get" /\ last.hit) =>
        last.writer[1].prompt = last.request.prompt

(***************************************************************************)
(* The chat screen (src/app/index.tsx) next to the drain loop.  The screen *)
(* keeps the messages of the conversation it shows in memory (chatHistory, *)
(* read from the record when the conversation is opened) and saves them as *)
(* the whole record when a reply is complete.                              *)
(***************************************************************************)
\* sends the chat screen makes
MaxSends == 1

\* the messages of the chat screen carry no id
ChatUserMessage == Msg("user", "Hi", Undefined, 0)

ChatAiMessage == Msg("model", "Hello!", "gemini", 0)

\* the sends in the history h
Sends(h) == Cardinality({k \in 1..Len(h) : h[k] = ChatUserMessage})

\* the screen is opened with a conversation id: loadConversation(loadId),
\* setConversation(conv), setChatHistory(conv.messages)
OpenConversation(c) ==
    /\ chat.pc = "closed"
    /\ c \in DOMAIN convs
    /\ chat' = [pc |-> "open", conv |-> c, chatHistory |-> convs[c].messages]
    /\ UNCHANGED <<qvars, svars, convs, cvars, tok, call>>
    /\ UNCHANGED <<idList, corrupt, restarts, saves, outcome>>

\* handleSendMessage up to the await of streamText:
\* setChatHistory(prevChat => [...prevChat, newUserMessage])
HandleSendMessage ==
    /\ chat.pc = "open"
    /\ Sends(chat.chatHistory) < MaxSends
    /\ chat' = [chat EXCEPT !.pc = "streaming",
                            !.chatHistory = Append(@, ChatUserMessage)]
    /\ UNCHANGED <<qvars, svars, convs, cvars, tok, call>>
    /\ UNCHANGED <<idList, corrupt, restarts, saves, outcome>>

\* onComplete: the history now ends with the reply; updated = {...conversation,
\* messages: allMessages}; saveConversation(updated)
StreamComplete ==
    /\ chat.pc = "streaming"
    /\ chat' = [chat EXCEPT !.pc = "open",
                            !.chatHistory = Append(@, ChatAiMessage)]
    /\ convs' = saveConversation(chat.conv, [messages |-> chat'.chatHistory])
    /\ UNCHANGED <<qvars, svars, cvars, tok, call>>
    /\ UNCHANGED <<idList, corrupt, restarts, saves, outcome>>

\* the drain loop with its parameters in place, addMessage, and the screen
RaceNext ==
    \/ DrainPass
    \/ DrainBegin
    \/ DrainReadParams
    \/ DrainNetworkError
    \/ DrainResponse
    \/ DrainSave
    \/ DrainMarkSent
    \/ DrainRemove
    \/ DrainRemoveParams
    \/ \E c \in ConvIds : AddMessage(c)
    \/ AddPush
    \/ \E c \in ConvIds : OpenConversation(c)
    \/ HandleSendMessage
    \/ StreamComplete

RaceSpec == Init /\ [][RaceNext]_vars

\* C24: the drain loop and the chat screen each save their own copy of the
\* conversation with their messages appended, whatever the record holds at
\* that moment: the record after a save is the saver's copy.
C24_LastWriteWins ==
    [][/\ (DrainSave /\ drainConv # <<>>) =>
              convs'[obj[cur].conversationId] = PushPair(drainConv[1], cur)
       /\ StreamComplete =>
              convs'[chat.conv].messages = Append(chat.chatHistory, ChatAiMessage)]_vars

\* item 1 was saved into the conversation by its delivery attempt, which is
\* not over yet, and the record holds the messages of the chat screen only:
\* the screen had opened the conversation before and saved afterwards
C24_Witness ==
    /\ pc \in {"saved", "sent", "removing"}
    /\ cur = 1
    /\ obj[1].conversationId = "c1"
    /\ ~Appended(1)
    /\ convs["c1"].messages = <<ChatUserMessage, ChatAiMessage>>

\* the reverse order: the screen has saved its send, and the record holds
\* the pair of item 1 only, saved by an attempt that had loaded before
C24_WitnessDrainLast ==
    /\ chat.pc = "open"
    /\ Sends(chat.chatHistory) = 1
    /\ convs["c1"].messages = <<QueuedUserMessage(1), AiMessage(1)>>

(***************************************************************************)
(* The conversation index (src/utils/conversations.ts): saveConversation,  *)
(* createNewConversation and saveConversationForFirstTime write the record *)
(* and then await addIdToList, which reads the list, and writes it back    *)
(* with the id pushed when the list read does not hold it.  Each call is   *)
(* followed through its awaits; a read or write of AsyncStorage takes      *)
(* effect when it is issued.                                               *)
(***************************************************************************)
\* the ids calls are made with: the stored conversation and three new ones
SavedIds == {"c1", "c2", "c3", "c4"}

\* await AsyncStorage.setItem(keyFor(convo.id), JSON.stringify(updated)):
\* the record is written; one call is made per id
SaveConversation(c) ==
    /\ c \notin DOMAIN saves
    /\ convs' = saveConversation(c, [messages |-> <<ChatUserMessage, ChatAiMessage>>])
    /\ saves' = [k \in DOMAIN saves \cup {c} |->
                    IF k = c THEN [pc |-> "record", arr |-> <<>>] ELSE saves[k]]
    /\ UNCHANGED <<qvars, svars, cvars, tok, call>>
    /\ UNCHANGED <<idList, corrupt, restarts, chat, outcome>>

\* arr.includes(id)
Includes(arr, id) == \E k \in 1..Len(arr) : arr[k] = id

\* addIdToList: const raw = await AsyncStorage.getItem(LIST_KEY)
AddIdRead(c) ==
    /\ c \in DOMAIN saves
    /\ saves[c].pc = "record"
    /\ saves' = [saves EXCEPT ![c] = [pc |-> "list", arr |-> idList]]
    /\ UNCHANGED <<qvars, svars, convs, cvars, tok, call>>
    /\ UNCHANGED <<idList, corrupt, restarts, chat, outcome>>

\* if (!arr.includes(id)) { arr.push(id); await AsyncStorage.setItem(LIST_KEY,
\* JSON.stringify(arr)) }; then the call returns
AddIdWrite(c) ==
    /\ c \in DOMAIN saves
    /\ saves[c].pc = "list"
    /\ idList' = IF Includes(saves[c].arr, c) THEN idList
                 ELSE Append(saves[c].arr, c)
    /\ saves' = [saves EXCEPT ![c] = [pc |-> "done", arr |-> <<>>]]
    /\ UNCHANGED <<qvars, svars, convs, cvars, tok, call>>
    /\ UNCHANGED <<corrupt, restarts, chat, outcome>>

\* listConversations: the ids of the records it returns (those of the list
\* that loadConversation finds)
listConversations == SelectSeq(idList, LAMBDA c : c \in DOMAIN convs)

IndexNext ==
    \/ \E c \in SavedIds : SaveConversation(c)
    \/ \E c \in SavedIds : AddIdRead(c)
    \/ \E c \in SavedIds : AddIdWrite(c)

IndexSpec == Init /\ [][IndexNext]_vars

\* C29: when every call of saveConversation / createNewConversation made has
\* returned, the id of every conversation with a record is in the index
\* exactly once, and listConversations returns every such conversation.
C29_IndexComplete ==
    (\A c \in DOMAIN saves : saves[c].pc = "done") =>
        \A c \in DOMAIN convs :
            /\ Cardinality({k \in 1..Len(idList) : idList[k] = c}) = 1
            /\ Includes(listConversations, c)

(***************************************************************************)
(* Kill and restart of the app, and a failing AsyncStorage.  A kill loses  *)
(* what is in memory (the queue, the drain loop, calls in progress, the    *)
(* chat screen); AsyncStorage stays.  initialize() then reloads the queue  *)
(* and starts the drain loop.  The specifications with these actions run   *)
(* neither the edit handlers nor generateText.                             *)
(***************************************************************************)
\* kills of the app that are followed
MaxRestarts == 1

\* the app is killed
Crash ==
    /\ restarts < MaxRestarts
    /\ pc # "down"
    /\ restarts' = restarts + 1
    /\ pc' = "down"
    /\ queue' = <<>>
    /\ obj' = [i \in ItemIds |-> NewQueuedMessage(i, "c1")]
    /\ pendingMessages' = <<>>
    /\ idx' = 0
    /\ hasParams' = FALSE
    /\ drainConv' = <<>>
    /\ task' = Idle
    /\ chat' = NoChat
    /\ saves' = NoSaves
    /\ UNCHANGED <<nextId, storedQueue, params, attempts, convs, svars>>
    /\ UNCHANGED <<idList, corrupt, outcome, cvars, tok, call>>

\* loadQueue: this.queue = JSON.parse(raw); in the catch block this.queue = []
loadQueue ==
    IF "message_queue" \in corrupt THEN <<>>
    ELSE [k \in 1..Len(storedQueue) |-> storedQueue[k].id]

\* the objects JSON.parse(raw) creates
Parsed(q) ==
    [i \in ItemIds |->
        IF \E k \in 1..Len(q) : q[k].id = i
        THEN q[CHOOSE k \in 1..Len(q) : q[k].id = i]
        ELSE NewQueuedMessage(i, "c1")]

\* initialize(): await this.loadQueue(); this.startProcessing()
Initialize ==
    /\ pc = "down"
    /\ queue' = loadQueue
    /\ obj' = Parsed(IF "message_queue" \in corrupt THEN <<>> ELSE storedQueue)
    /\ attempts' = CollectAttempts(attempts, Range(queue'))
    /\ pc' = "top"
    /\ outcome' = [op |-> "loadQueue", result |-> "returned"]
    /\ UNCHANGED <<nextId, storedQueue, params, pendingMessages, idx,
                   hasParams, drainConv, task, convs, svars>>
    /\ UNCHANGED <<idList, corrupt, restarts, chat, saves, cvars, tok, call>>

\* saveConversation has written the record and awaits addIdToList, whose
\* AsyncStorage.getItem(LIST_KEY) rejects: processSingleMessage throws
DrainIndexFails ==
    /\ pc = "saved"
    /\ Catch("Storage error")
    /\ UNCHANGED <<svars, dvars, cvars, tok, call>>

\* the steps of the drain loop
DrainStep ==
    \/ DrainPass
    \/ DrainBegin
    \/ DrainReadParams
    \/ DrainNetworkError
    \/ DrainResponse
    \/ DrainSave
    \/ DrainIndexFails
    \/ DrainMarkSent
    \/ DrainRemove
    \/ DrainRemoveParams

RestartNext ==
    \/ DrainStep
    \/ \E c \in ConvIds : pc # "down" /\ AddMessage(c)
    \/ AddPush
    \/ Crash
    \/ Initialize

RestartSpec == Init /\ [][RestartNext]_vars

\* the event loop resumes every continuation that is due: the drain loop
\* goes on while it has a step to take, and a started app initializes
RestartFairSpec ==
    RestartSpec /\ WF_vars(DrainStep) /\ WF_vars(AddPush) /\ WF_vars(Initialize)

\* how often the queued message of item i is stored in the conversations
Appends(i) ==
    Cardinality(UNION {{<<c, k>> : k \in {j \in 1..Len(convs[c].messages) :
                                            convs[c].messages[j].id = 2 * i}} :
                       c \in DOMAIN convs})

\* C27: the message of a queued item is appended to its conversation at
\* most once.
C27_AppendedOnce == \A i \in ItemIds : Appends(i) <= 1

\* C26: after a restart, an item of the reloaded queue that is not failed
\* is eventually inside a delivery attempt, or failed, or out of the queue.
C26_ReloadedAttempted ==
    \A i \in ItemIds :
        (restarts > 0 /\ pc # "down" /\ i \in Queued /\ obj[i].status # "failed")
            ~> (InAttempt(i) \/ i \notin Queued \/ obj[i].status = "failed")

(***************************************************************************)
(* Records whose stored text is not valid JSON.  A key in `corrupt` holds  *)
(* such a text: JSON.parse of it throws a SyntaxError.  What the variables *)
(* of the model hold for the key is then what the text held before.        *)
(***************************************************************************)
\* keyFor(id): `conversation_${id}`
keyFor == [c1 |-> "conversation_c1", c2 |-> "conversation_c2"]

\* the request whose cache entry is followed: 'hi' to openai 'Aa'
DamagedRequest == Request("openai", <<65, 97>>, <<>>)

\* the keys that hold a record
Stored ==
    {"conversation_ids"}
        \cup {keyFor[c] : c \in DOMAIN convs}
        \cup (IF storedQueue # <<>> THEN {"message_queue"} ELSE {})
        \cup (IF CacheKeys[DamagedRequest] \in DOMAIN cache
              THEN {"ai_response_cache"} ELSE {})

\* the text of a stored record is damaged (by the device, not by the app)
Damage(k) ==
    /\ pc # "down"
    /\ k \in Stored \ corrupt
    /\ corrupt' = corrupt \cup {k}
    /\ UNCHANGED <<qvars, svars, convs, cvars, tok, call>>
    /\ UNCHANGED <<idList, restarts, chat, saves, outcome>>

\* getCached of the damaged entry: JSON.parse throws inside the try block,
\* the catch block returns null; the entry stays
GetCachedDamaged ==
    /\ pc # "down"
    /\ "ai_response_cache" \in corrupt
    /\ last' = [op |-> "get", request |-> DamagedRequest, hit |-> FALSE,
                text |-> <<>>, at |-> 0, ttl |-> 0, writer |-> <<>>,
                follows |-> FALSE]
    /\ outcome' = [op |-> "getCached", result |-> "returned"]
    /\ UNCHANGED <<qvars, svars, convs, tok, call>>
    /\ UNCHANGED <<now, cache, others, writer>>
    /\ UNCHANGED <<idList, corrupt, restarts, chat, saves>>

\* loadConversation(id): return JSON.parse(raw), outside any try block
LoadConversation(c) ==
    /\ pc # "down"
    /\ outcome' = [op |-> "loadConversation",
                   result |-> IF keyFor[c] \in corrupt
                              THEN "threw" ELSE "returned"]
    /\ UNCHANGED <<qvars, svars, convs, cvars, tok, call>>
    /\ UNCHANGED <<idList, corrupt, restarts, chat, saves>>

\* listConversations(): JSON.parse(raw) of the list, then loadConversation
\* of every id in it, outside any try block
ListConversations ==
    /\ pc # "down"
    /\ outcome' = [op |-> "listConversations",
                   result |-> IF \/ "conversation_ids" \in corrupt
                                 \/ \E k \in 1..Len(idList) :
                                        keyFor[idList[k]] \in corrupt
                              THEN "threw" ELSE "returned"]
    /\ UNCHANGED <<qvars, svars, convs, cvars, tok, call>>
    /\ UNCHANGED <<idList, corrupt, restarts, chat, saves>>

CorruptNext ==
    \/ \E k \in {"conversation_ids", "conversation_c1", "message_queue",
                  "ai_response_cache"} : Damage(k)
    \/ \E response \in Responses :
           /\ pc # "down"
           /\ "ai_response_cache" \notin corrupt
           /\ SetCached(DamagedRequest, response, 0)
    \/ pc # "down" /\ "ai_response_cache" \notin corrupt /\ GetCached(DamagedRequest)
    \/ GetCachedDamaged
    \/ \E c \in ConvIds : LoadConversation(c)
    \/ ListConversations
    \/ \E c \in ConvIds : pc # "down" /\ AddMessage(c)
    \/ AddPush
    \/ Crash
    \/ Initialize

CorruptSpec == Init /\ [][CorruptNext]_vars

\* C25: no call on a damaged record throws: getCached, loadQueue,
\* loadConversation and listConversations all return.
C25_NeverThrows == outcome.result # "threw"

\* the part of C25 the code keeps: getCached of a damaged entry misses, and
\* initialize() with a damaged queue index leaves an empty queue
CacheAndQueueSilent ==
    /\ (outcome.op = "getCached" /\ last.op = "get") => ~last.hit
    /\ [][(Initialize /\ "message_queue" \in corrupt) => queue' = <<>>]_vars

====
